---- MODULE Spec2Model ----
(***************************************************************************)
(* Model of the Prism python-service ingestion pipeline:                   *)
(*   - PDFProcessor.chunk_text            (services/pdf_processor.py)      *)
(*   - PDFProcessor.extract_text, process_document                         *)
(*   - OCRService.process_image/_batch    (services/ocr_service.py)        *)
(*   - OCRService.process_document_images                                  *)
(*   - EmbeddingService.process_document_chunks                            *)
(*                                        (services/embedding_service.py)  *)
(*   - ImageService.extract_all_images    (services/image_service.py)      *)
(*   - EmbeddingService.search_similar    (services/embedding_service.py)  *)
(*   - EmbeddingService.generate_batch_embeddings                          *)
(*   - get_db / insert_* helpers          (database.py)                    *)
(*   - the batch routes                   (api/ocr_routes.py,              *)
(*                                         api/embedding_routes.py)        *)
(*   - process_pdf, extract_images        (api/pdf_routes.py)              *)
(*   - OCRService.reader, the lazily loaded engine handle                  *)
(*   - get_db as a context manager        (database.py)                    *)
(*   - two process_document_images calls on one table                      *)
(* Each subsystem has its own specification (SpecChunk, SpecOcr,           *)
(* SpecEmbed, SpecImg, SpecSearch, SpecBatch, SpecDoc, SpecOcrDoc,         *)
(* SpecRoutes, SpecPdfRoutes, SpecInsertBatch, SpecReader, SpecGetDb,      *)
(* SpecOcrRuns) over the shared variable tuple; the variables of the       *)
(* other subsystems stay at their idle values. SpecDrivers runs either     *)
(* document-level driver, SpecChunkPath any of chunk_text,                 *)
(* process_document and process_document_chunks. SpecOcrFair is SpecOcr    *)
(* with weak fairness of the steps of process_batch and its threads.       *)
(***************************************************************************)
EXTENDS Integers, Sequences, FiniteSets, TLC

VARIABLES
    \* ---- PDFProcessor.chunk_text ----
    text,        \* the input string, a sequence of one-character strings
    chunk_size,  \* parameter chunk_size
    overlap,     \* parameter overlap
    chunks,      \* the returned list of chunk strings
    windows,     \* the (start, end) word windows the loop visited
    chunkPc,     \* "idle" | "ready" | "done"
    \* ---- OCRService.process_batch ----
    images,      \* the batch argument: per entry its image id, or NoKey
    workers,     \* self.workers, the width of the thread pool
    unit,        \* per future: its state, outcome, engines tried
    results,     \* the results list, in completion order
    ocrPc,       \* "idle" | "called" | "collecting" | "returned"
                 \*   | "unwinding" | "raised"
    \* ---- EmbeddingService.process_document_chunks ----
    embCall,     \* number of the current call (identifies the rows it writes)
    embChunks,   \* the chunks argument of the current call
    embFault,    \* whether a step of the current call has raised
    embSession,  \* rows inserted in the open database session, not committed
    embRows,     \* the committed (visible) rows of table embeddings
    embResult,   \* the dict the current call returned
    embPc,       \* "idle" | "called" | "inserting" | "returned"
    \* ---- ImageService.extract_all_images ----
    pdf,              \* the document: per page its word count and embedded images
    imgRun,           \* number of the current extract_all_images call
    imgPc,            \* "idle" | "called" | "render" | "scan" | "returned" | "failed"
    renderPage,       \* page_num + 1 of the render loop
    scanPage,         \* page_num + 1 of the embedded-image loop
    scanIdx,          \* position in the page's image list, 0 before get_images
    all_images,       \* all_images of the current call
    embedded_images,  \* embedded_images of the current call
    image_hashes,     \* image_hashes of the current call
    imageRows,        \* the committed (visible) rows of table document_images
    renderLog,        \* per page the STEP 1 loop has passed: what it did
    imgFaulted,       \* whether a step has already raised in this behaviour
    \* ---- EmbeddingService.search_similar ----
    query,            \* the query string, a sequence of one-character strings
    embeddings_list,  \* the candidates: dicts with 'id' and 'embedding'
    top_k,            \* parameter top_k
    searchResults,    \* the returned list
    searchPc,         \* "idle" | "called" | "returned" | "raised"
    \* ---- EmbeddingService.generate_batch_embeddings ----
    batchTexts,       \* the texts argument
    batch_size,       \* self.batch_size, the sub-batch width of model.encode
    batchStart,       \* start_index of the next sub-batch (0-based)
    backendSent,      \* every text handed to the model so far, in order
    encoded,          \* the vectors the model has produced so far
    batchResult,      \* the returned list
    batchPc,          \* "idle" | "called" | "encoding" | "returned" | "raised"
    \* ---- PDFProcessor.process_document / extract_text ----
    docPages,         \* the PDF file: the text of every page
    max_pages,        \* self.max_pages
    docRow,           \* the row of table documents for document_id
    docPc,            \* "idle" | "called" | "metadata" | "extract" | "counts"
                      \*   | "handling" | "returned" | "raised"
    docError,         \* str(e) of the exception the except branch caught
    docRaised,        \* the exception that left process_document
    extractOutcome,   \* what extract_text returned or raised
    docChunks,        \* the chunks list
    docResult,        \* the returned dict
    \* ---- OCRService.process_document_images ----
    document_images,  \* table document_images: row id -> row
    ocr_batch_size,   \* self.batch_size, the width of a sub-batch
    pending_images,   \* the fetched pending rows (their ids), in fetch order
    ocrBatchStart,    \* i of `for i in range(0, len(images), self.batch_size)`
    ocrUnits,         \* per fetched image: "waiting" | "queued" | "running" | "done"
    batch_results,    \* batch_results of the current sub-batch
    all_results,      \* all_results
    persistPos,       \* position in batch_results of the next update_image_ocr
    ocrDocResult,     \* the returned dict
    ocrDocFault,      \* str(e) of the exception a step raised, "none" if none did
    ocrDocPc,         \* "idle" | "called" | "in_batch" | "persisting" | "returned"
    \* ---- api routes /ocr/process-batch, /embeddings/generate[-batch] ----
    routeEntry,       \* the endpoint the request was posted to
    requestLen,       \* len(request.images) or len(texts)
    routeRaised,      \* the exception raised inside the route's try block
    serviceCalls,     \* calls of the service's batch method by this request
    routeStatus,      \* HTTP status of the response, 0 while there is none
    routePc,          \* "idle" | "received" | "calling" | "handling" | "responded"
    \* ---- api routes /pdf/process and /pdf/extract-images ----
    pdfRoute,         \* the endpoint the request was posted to
    pdfImagesError,   \* str(e) of the exception extract_all_images raised
    pdfResponse,      \* HTTP status of the response, 0 while there is none
    pdfRoutePc,       \* "idle" | "in_process_document" | "responded"
    \* ---- database.insert_document_images_batch inside get_db ----
    insImages,        \* the images argument
    insRows,          \* committed rows of document_images (what others see)
    insSession,       \* rows inserted in the open transaction
    insIds,           \* the local list ids
    insReturn,        \* the returned list, NotReturned while there is none
    insPc,            \* "idle" | "called" | "inserting" | "returned" | "raised"
    \* ---- OCRService.reader, the lazily loaded engine handle ----
    reader,           \* self._reader: NoReader, or the number of a Reader object
    readerLoads,      \* easyocr.Reader objects constructed so far
    readerHealth,     \* startup health_check: "pending" | "available" | "unavailable"
    readerThreads,    \* per pool thread inside process_image: pc and handle
    \* ---- database.get_db, the session context manager ----
    dbOpen,           \* the sessions SessionLocal() made that are not closed
    dbOpened,         \* sessions made so far by the operation
    dbTodo,           \* statements the with block has still to run
    dbCalls,          \* the calls made on the current session, in order
    dbLeft,           \* how the last with statement was left
    dbPc,             \* "idle" | "ready" | "in_block" | "except" | "finally"
                      \*   | "returned"
    \* ---- two process_document_images calls on one table ----
    sharedImages,     \* table document_images: row id -> row
    runBatchSize,     \* self.batch_size of the service
    runFetched,       \* per call: the pending rows it fetched, in fetch order
    runStart,         \* per call: i of the sub-batch loop
    runResults,       \* per call: batch_results of its current sub-batch
    runPersistPos,    \* per call: position of its next update_image_ocr
    runPc             \* per call: "called" | "in_batch" | "persisting" | "returned"

chunkVars == <<text, chunk_size, overlap, chunks, windows, chunkPc>>

ocrVars == <<images, workers, unit, results, ocrPc>>

embVars == <<embCall, embChunks, embFault, embSession, embRows, embResult, embPc>>

imgVars == <<pdf, imgRun, imgPc, renderPage, scanPage, scanIdx, all_images,
             embedded_images, image_hashes, imageRows, renderLog, imgFaulted>>

searchVars == <<query, embeddings_list, top_k, searchResults, searchPc>>

batchVars == <<batchTexts, batch_size, batchStart, backendSent, encoded,
               batchResult, batchPc>>

docVars == <<docPages, max_pages, docRow, docPc, docError, docRaised,
             extractOutcome, docChunks, docResult>>

ocrDocVars == <<document_images, ocr_batch_size, pending_images, ocrBatchStart,
                ocrUnits, batch_results, all_results, persistPos, ocrDocResult,
                ocrDocFault, ocrDocPc>>

routeVars == <<routeEntry, requestLen, routeRaised, serviceCalls, routeStatus,
               routePc>>

pdfRouteVars == <<pdfRoute, pdfImagesError, pdfResponse, pdfRoutePc>>

insVars == <<insImages, insRows, insSession, insIds, insReturn, insPc>>

readerVars == <<reader, readerLoads, readerHealth, readerThreads>>

dbVars == <<dbOpen, dbOpened, dbTodo, dbCalls, dbLeft, dbPc>>

runVars == <<sharedImages, runBatchSize, runFetched, runStart, runResults,
             runPersistPos, runPc>>

vars == <<chunkVars, ocrVars, embVars, imgVars, searchVars, batchVars, docVars, ocrDocVars, routeVars, pdfRouteVars, insVars, readerVars, dbVars, runVars>>

Min(a, b) == IF a < b THEN a ELSE b

(***************************************************************************)
(* PDFProcessor.chunk_text                                                 *)
(***************************************************************************)
MaxTextLen == 7
MaxChunkSize == 3

Letters == {"a", "b"}
Whitespace == {" "}
Chars == Letters \cup Whitespace

RECURSIVE SplitAcc(_, _, _, _)
SplitAcc(t, i, cur, acc) ==
    IF i > Len(t)
    THEN IF cur = <<>> THEN acc ELSE Append(acc, cur)
    ELSE IF t[i] \in Whitespace
         THEN SplitAcc(t, i + 1, <<>>, IF cur = <<>> THEN acc ELSE Append(acc, cur))
         ELSE SplitAcc(t, i + 1, Append(cur, t[i]), acc)

\* str.split(): the maximal runs of non-whitespace characters, in order.
SplitWords(t) == SplitAcc(t, 1, <<>>, <<>>)

RECURSIVE JoinWords(_)
\* " ".join(words)
JoinWords(ws) ==
    IF ws = <<>> THEN <<>>
    ELSE IF Len(ws) = 1 THEN ws[1]
    ELSE ws[1] \o <<" ">> \o JoinWords(Tail(ws))

\* words[start:end] with Python's 0-based, end-exclusive, clamped slicing.
Slice(ws, start, end) == SubSeq(ws, start + 1, Min(end, Len(ws)))

\* a loop that steps back one word more than the overlap
NextStartOneMoreBack(end, ov) == end - ov - 1

NextStartNoOverlap(end, ov) == end

\* start = end - overlap
NextStart(end, ov) == end - ov

RECURSIVE ChunkLoop(_, _, _, _, _)
\* the while loop of chunk_text; every iteration records its window. The
\* loop is followed for at most Len(ws) + 1 iterations.
ChunkLoop(ws, start, size, ov, acc) ==
    IF start < Len(ws) /\ Len(acc) <= Len(ws)
    THEN LET end == start + size
             chunk_words == Slice(ws, start, end)
         IN  ChunkLoop(ws, NextStart(end, ov), size, ov,
                       Append(acc, [start |-> start, end |-> end,
                                    chunk |-> JoinWords(chunk_words)]))
    ELSE acc

ChunkWindows(t, size, ov) ==
    LET ws == SplitWords(t)
    IN  IF Len(ws) <= size THEN <<>> ELSE ChunkLoop(ws, 0, size, ov, <<>>)

chunk_text_rejoined(t, size, ov) ==
    LET ws == SplitWords(t)
    IN  IF Len(ws) <= size
        THEN <<JoinWords(ws)>>
        ELSE LET w == ChunkLoop(ws, 0, size, ov, <<>>)
             IN  [k \in 1..Len(w) |-> w[k].chunk]

chunk_text(t, size, ov) ==
    LET ws == SplitWords(t)
    IN  IF Len(ws) <= size
        THEN <<t>>
        ELSE LET w == ChunkLoop(ws, 0, size, ov, <<>>)
             IN  [k \in 1..Len(w) |-> w[k].chunk]

Texts == UNION {[1..n -> Chars] : n \in 0..MaxTextLen}

InitChunk ==
    /\ text \in Texts
    /\ chunk_size \in 1..MaxChunkSize
    /\ overlap \in 0..(chunk_size - 1)
    /\ chunks = <<>>
    /\ windows = <<>>
    /\ chunkPc = "ready"

IdleChunk ==
    /\ text = <<>>
    /\ chunk_size = 1
    /\ overlap = 0
    /\ chunks = <<>>
    /\ windows = <<>>
    /\ chunkPc = "idle"

ChunkCall ==
    /\ chunkPc = "ready"
    /\ chunks' = chunk_text(text, chunk_size, overlap)
    /\ windows' = ChunkWindows(text, chunk_size, overlap)
    /\ chunkPc' = "done"
    /\ UNCHANGED <<text, chunk_size, overlap>>
    /\ UNCHANGED <<ocrVars, embVars, imgVars, searchVars, batchVars, docVars, ocrDocVars, routeVars, pdfRouteVars, insVars, readerVars, dbVars, runVars>>


(***************************************************************************)
(* OCRService.process_image / process_batch                                *)
(***************************************************************************)
MaxImages == 2
MaxWorkers == 2
MaxOverruns == 1

ImageIds == {"img1", "img2"}

\* an entry of the batch that lacks the key 'path' or the key 'id'
NoKey == "no_key"

\* the entries a caller can pass
ImageEntries == ImageIds \cup {NoKey}

RECURSIVE SubmittedBeforeKeyError(_)
\* the submit comprehension evaluates img['path'] and img['id'] entry by
\* entry: the number of futures submitted before the first KeyError
SubmittedBeforeKeyError(entries) ==
    IF entries = <<>> \/ Head(entries) = NoKey THEN 0
    ELSE 1 + SubmittedBeforeKeyError(Tail(entries))

\* the engine process_image calls, and the engines config.py configures
\* besides it
PrimaryEngine == "easyocr"
FallbackEngines == {"tesseract", "ocr_space"}

\* what one run of process_image can end in: the engine returned, the
\* engine (or opening the file) raised inside the try block, or an exception
\* left process_image itself
UnitOutcomes == {"completed", "failed", "escaped"}

Units == 1..Len(unit)

QueuedUnits == {i \in Units : unit[i].st = "queued"}
RunningUnits == {i \in Units : unit[i].st = "running"}

NewUnit == [st |-> "queued", outcome |-> "none", attempts |-> <<>>, overtime |-> FALSE]

\* the dict process_image returns: the try branch or the except branch
process_image(i, outcome) ==
    IF outcome = "completed"
    THEN [image_id |-> images[i], status |-> "completed", error |-> "none", unit |-> i]
    ELSE [image_id |-> images[i], status |-> "failed", error |-> "ocr_error", unit |-> i]

\* the dict the except branch of process_batch builds for a future that raised
TaskFailedResult(i) ==
    [image_id |-> images[i], status |-> "failed", error |-> "task_error", unit |-> i]

\* future.result(timeout=self.timeout) on a future as_completed has yielded
FutureResult(i) ==
    IF unit[i].outcome = "escaped"
    THEN TaskFailedResult(i)
    ELSE process_image(i, unit[i].outcome)

ResultsKeyedById(i) ==
    SelectSeq(results, LAMBDA r : r.image_id # images[i]) \o <<FutureResult(i)>>

\* results.append(...) in either branch of the collection loop
ResultsAfterCollect(i) == Append(results, FutureResult(i))

InitOcr ==
    /\ images \in UNION {[1..n -> ImageEntries] : n \in 0..MaxImages}
    /\ workers \in 1..MaxWorkers
    /\ unit = [i \in 1..Len(images) |-> NewUnit]
    /\ results = <<>>
    /\ ocrPc = "called"

IdleOcr ==
    /\ images = <<>>
    /\ workers = 1
    /\ unit = <<>>
    /\ results = <<>>
    /\ ocrPc = "idle"

\* process_batch up to the end of the submit comprehension. A KeyError of
\* an entry is raised in the caller's thread, outside any try: the futures
\* submitted before it stay in the pool and the with block is left
BatchSubmit ==
    /\ ocrPc = "called"
    /\ LET submitted == SubmittedBeforeKeyError(images)
       IN  /\ unit' = SubSeq(unit, 1, submitted)
           /\ ocrPc' = IF images = <<>> THEN "returned"
                       ELSE IF submitted = Len(images) THEN "collecting"
                       ELSE "unwinding"
    /\ UNCHANGED <<images, workers, results>>
    /\ UNCHANGED <<chunkVars, embVars, imgVars, searchVars, batchVars, docVars, ocrDocVars, routeVars, pdfRouteVars, insVars, readerVars, dbVars, runVars>>

\* a pool thread takes the oldest queued work item and enters process_image
\* a pool that would hand a task to a thread beyond max_workers
PoolHasIdleWorkerOffByOne(running, max_workers) == running <= max_workers
\* ThreadPoolExecutor(max_workers=self.workers): a queued task is taken only
\* by one of the max_workers threads, when that thread runs no other task
PoolHasIdleWorker(running, max_workers) == running < max_workers

WorkerStart(i) ==
    /\ ocrPc \in {"collecting", "unwinding"}
    /\ unit[i].st = "queued"
    /\ \A j \in QueuedUnits : i <= j
    /\ PoolHasIdleWorker(Cardinality(RunningUnits), workers)
    /\ unit' = [unit EXCEPT ![i].st = "running"]
    /\ UNCHANGED <<images, workers, results, ocrPc>>
    /\ UNCHANGED <<chunkVars, embVars, imgVars, searchVars, batchVars, docVars, ocrDocVars, routeVars, pdfRouteVars, insVars, readerVars, dbVars, runVars>>

\* self.timeout seconds pass while unit i is still inside process_image
Overrun(i) ==
    /\ unit[i].st = "running"
    /\ ~unit[i].overtime
    /\ Cardinality({j \in Units : unit[j].overtime}) < MaxOverruns
    /\ unit' = [unit EXCEPT ![i].overtime = TRUE]
    /\ UNCHANGED <<images, workers, results, ocrPc>>
    /\ UNCHANGED <<chunkVars, embVars, imgVars, searchVars, batchVars, docVars, ocrDocVars, routeVars, pdfRouteVars, insVars, readerVars, dbVars, runVars>>

\* process_image runs to its end: one readtext call on the EasyOCR reader
UnitFinish(i, outcome) ==
    /\ unit[i].st = "running"
    /\ unit' = [unit EXCEPT ![i].st = "done",
                            ![i].outcome = outcome,
                            ![i].attempts = Append(@, PrimaryEngine)]
    /\ UNCHANGED <<images, workers, results, ocrPc>>
    /\ UNCHANGED <<chunkVars, embVars, imgVars, searchVars, batchVars, docVars, ocrDocVars, routeVars, pdfRouteVars, insVars, readerVars, dbVars, runVars>>

\* one iteration of `for future in as_completed(future_to_image)`
Collect(i) ==
    /\ ocrPc = "collecting"
    /\ unit[i].st = "done"
    /\ results' = ResultsAfterCollect(i)
    /\ unit' = [unit EXCEPT ![i].st = "collected"]
    /\ UNCHANGED <<images, workers, ocrPc>>
    /\ UNCHANGED <<chunkVars, embVars, imgVars, searchVars, batchVars, docVars, ocrDocVars, routeVars, pdfRouteVars, insVars, readerVars, dbVars, runVars>>

\* a collection loop that stops at the first future it was handed
AsCompletedExhaustedAtFirst == \E i \in Units : unit[i].st = "collected"
\* `for future in as_completed(future_to_image)` ends: the iterator has
\* yielded every future of the dict, each one after it finished
AsCompletedExhausted == \A i \in Units : unit[i].st = "collected"

\* as_completed is exhausted, the pool shuts down, process_batch returns
BatchReturn ==
    /\ ocrPc = "collecting"
    /\ AsCompletedExhausted
    /\ ocrPc' = "returned"
    /\ UNCHANGED <<images, workers, unit, results>>
    /\ UNCHANGED <<chunkVars, embVars, imgVars, searchVars, batchVars, docVars, ocrDocVars, routeVars, pdfRouteVars, insVars, readerVars, dbVars, runVars>>

\* ThreadPoolExecutor.__exit__ with the KeyError under way: shutdown waits
\* for the futures already submitted, then the exception leaves
\* process_batch
BatchRaise ==
    /\ ocrPc = "unwinding"
    /\ \A i \in Units : unit[i].st = "done"
    /\ ocrPc' = "raised"
    /\ UNCHANGED <<images, workers, unit, results>>
    /\ UNCHANGED <<chunkVars, embVars, imgVars, searchVars, batchVars, docVars, ocrDocVars, routeVars, pdfRouteVars, insVars, readerVars, dbVars, runVars>>

NextOcr ==
    \/ BatchSubmit
    \/ \E i \in Units : WorkerStart(i)
    \/ \E i \in Units : Overrun(i)
    \/ \E i \in Units : \E o \in UnitOutcomes : UnitFinish(i, o)
    \/ \E i \in Units : Collect(i)
    \/ BatchReturn
    \/ BatchRaise


(***************************************************************************)
(* database.get_db / insert_embedding and                                  *)
(* EmbeddingService.process_document_chunks                                *)
(***************************************************************************)
MaxChunks == 2
MaxEmbedCalls == 2

\* the chunk dicts a caller passes: text, page_number and chunk_index
ChunkDicts ==
    {[text |-> "a", page_number |-> 1, chunk_index |-> 0],
     [text |-> "b", page_number |-> 2, chunk_index |-> 1]}

ChunkLists == UNION {[1..n -> ChunkDicts] : n \in 0..MaxChunks}

NoResult == [success |-> FALSE, chunks_processed |-> -1]

\* the vector the embedding backend gives for a text
TextVector(t) == IF t = "a" THEN <<1, 0>> ELSE <<0, 1>>

\* texts = [chunk['text'] ...]; embeddings = generate_batch_embeddings(texts)
Embeddings(cs) == [k \in 1..Len(cs) |-> TextVector(cs[k].text)]

\* a row whose chunk_index is the position in the list
EmbeddingRowIndexFromPosition(c, cs, i) ==
    [call |-> c, pos |-> i,
     page_number |-> cs[i].page_number, chunk_index |-> i - 1,
     text |-> cs[i].text, embedding |-> Embeddings(cs)[i]]
\* the row insert_embedding writes for (chunks[i], embeddings[i]) of call c
EmbeddingRow(c, cs, i) ==
    [call |-> c, pos |-> i,
     page_number |-> cs[i].page_number, chunk_index |-> cs[i].chunk_index,
     text |-> cs[i].text, embedding |-> Embeddings(cs)[i]]

insert_embedding_committing(db, row) ==
    [session |-> <<>>,
     rows |-> db.rows \cup {db.session[k] : k \in 1..Len(db.session)} \cup {row}]

\* insert_embedding: an INSERT in the caller's session, no commit
insert_embedding(db, row) ==
    [session |-> Append(db.session, row), rows |-> db.rows]

\* get_db, normal exit of the block: db.commit()
SessionCommit(db) ==
    [session |-> <<>>,
     rows |-> db.rows \cup {db.session[k] : k \in 1..Len(db.session)}]

\* get_db, exception in the block or in commit: db.rollback()
SessionRollback(db) == [session |-> <<>>, rows |-> db.rows]

EmbDb == [session |-> embSession, rows |-> embRows]

\* the dict the except branch returns
FailureResult(e) == [success |-> FALSE, chunks_processed |-> 0, error |-> e]

InitEmb ==
    /\ embCall = 1
    /\ embChunks \in ChunkLists
    /\ embFault = FALSE
    /\ embSession = <<>>
    /\ embRows = {}
    /\ embResult = NoResult
    /\ embPc = "called"

IdleEmb ==
    /\ embCall = 0
    /\ embChunks = <<>>
    /\ embFault = FALSE
    /\ embSession = <<>>
    /\ embRows = {}
    /\ embResult = NoResult
    /\ embPc = "idle"

\* the empty check, texts = [...], generate_batch_embeddings(texts)
EmbGenerate(ok) ==
    /\ embPc = "called"
    /\ IF embChunks = <<>>
       THEN /\ embResult' = [success |-> TRUE, chunks_processed |-> 0]
            /\ embPc' = "returned"
            /\ UNCHANGED embFault
       ELSE IF ok
       THEN /\ embPc' = "inserting"
            /\ UNCHANGED <<embResult, embFault>>
       ELSE /\ embResult' = FailureResult("encode_error")
            /\ embFault' = TRUE
            /\ embPc' = "returned"
    /\ UNCHANGED <<embCall, embChunks, embSession, embRows>>
    /\ UNCHANGED <<chunkVars, ocrVars, imgVars, searchVars, batchVars, docVars, ocrDocVars, routeVars, pdfRouteVars, insVars, readerVars, dbVars, runVars>>

\* one iteration of the insert loop inside `with get_db() as db`
EmbInsert(ok) ==
    /\ embPc = "inserting"
    /\ Len(embSession) < Len(embChunks)
    /\ LET i == Len(embSession) + 1
           db == IF ok
                 THEN insert_embedding(EmbDb, EmbeddingRow(embCall, embChunks, i))
                 ELSE SessionRollback(EmbDb)
       IN  /\ embSession' = db.session
           /\ embRows' = db.rows
    /\ IF ok
       THEN UNCHANGED <<embResult, embFault, embPc>>
       ELSE /\ embResult' = FailureResult("insert_error")
            /\ embFault' = TRUE
            /\ embPc' = "returned"
    /\ UNCHANGED <<embCall, embChunks>>
    /\ UNCHANGED <<chunkVars, ocrVars, imgVars, searchVars, batchVars, docVars, ocrDocVars, routeVars, pdfRouteVars, insVars, readerVars, dbVars, runVars>>

\* leaving the with block: db.commit(), then the summary is returned
EmbCommit(ok) ==
    /\ embPc = "inserting"
    /\ Len(embSession) = Len(embChunks)
    /\ LET db == IF ok THEN SessionCommit(EmbDb) ELSE SessionRollback(EmbDb)
       IN  /\ embSession' = db.session
           /\ embRows' = db.rows
    /\ embResult' = IF ok
                    THEN [success |-> TRUE, chunks_processed |-> Len(embChunks)]
                    ELSE FailureResult("commit_error")
    /\ embFault' = ~ok
    /\ embPc' = "returned"
    /\ UNCHANGED <<embCall, embChunks>>
    /\ UNCHANGED <<chunkVars, ocrVars, imgVars, searchVars, batchVars, docVars, ocrDocVars, routeVars, pdfRouteVars, insVars, readerVars, dbVars, runVars>>

\* the next call of process_document_chunks
EmbNextCall ==
    /\ embPc = "returned"
    /\ embCall < MaxEmbedCalls
    /\ embCall' = embCall + 1
    /\ embChunks' \in ChunkLists
    /\ embFault' = FALSE
    /\ embResult' = NoResult
    /\ embPc' = "called"
    /\ UNCHANGED <<embSession, embRows>>
    /\ UNCHANGED <<chunkVars, ocrVars, imgVars, searchVars, batchVars, docVars, ocrDocVars, routeVars, pdfRouteVars, insVars, readerVars, dbVars, runVars>>

NextEmb ==
    \/ \E ok \in BOOLEAN : EmbGenerate(ok)
    \/ \E ok \in BOOLEAN : EmbInsert(ok)
    \/ \E ok \in BOOLEAN : EmbCommit(ok)
    \/ EmbNextCall


(***************************************************************************)
(* ImageService.extract_all_images, _render_page_as_image,                 *)
(* _extract_embedded_images and database.insert_document_image             *)
(***************************************************************************)
MaxPages == 2
MaxRuns == 2

\* self.text_threshold
text_threshold == 50

\* the minimum width and height of an embedded image that is kept
MinImageDim == 100

DocumentId == "doc1"

\* word counts on either side of the threshold
WordCounts == {49, 50}

\* embedded image contents: two large ones and one below the minimum width
Contents == {"A", "B", "S"}

ImageSize(c) ==
    CASE c = "A" -> [width |-> 200, height |-> 200]
      [] c = "B" -> [width |-> 100, height |-> 100]
      [] c = "S" -> [width |-> 99, height |-> 200]

\* hashlib.md5(image_bytes).hexdigest(): equal exactly for equal bytes
ContentHash(c) == <<"md5", c>>

\* what page.get_images(full=True) can list on one page
PageImageLists == {<<>>, <<"A">>, <<"A", "A">>, <<"A", "B">>, <<"S", "A">>}

\* settings.PDF_DPI
PDF_DPI == 100

\* page formats, in points: A4, and a 60 x 60 point label
PageFormats == {"a4", "label"}

PageRect(format) ==
    CASE format = "a4" -> [width |-> 595, height |-> 842]
      [] format = "label" -> [width |-> 60, height |-> 60]

\* page.get_pixmap(matrix=fitz.Matrix(dpi / 72, dpi / 72)): the pixel size
\* of the rendered page
PixmapSize(format) ==
    [width |-> (PageRect(format).width * PDF_DPI) \div 72,
     height |-> (PageRect(format).height * PDF_DPI) \div 72]

\* a page: its word count, whether pages_with_text_count has an entry for
\* it, its embedded images and its format. Next to the A4 pages that the
\* map lists: a page the map does not list, and a label page
PdfPages ==
    [words : WordCounts, listed : {TRUE}, imgs : PageImageLists, format : {"a4"}]
    \cup {[words |-> 50, listed |-> FALSE, imgs |-> <<>>, format |-> "a4"],
          [words |-> 49, listed |-> TRUE, imgs |-> <<"A">>, format |-> "label"]}

Pdfs == UNION {[1..n -> PdfPages] : n \in 1..MaxPages}

NPages == Len(pdf)

EmbeddedImageIndexZeroBased(img_index) == img_index

\* image_index of an embedded image: img_index + 1, img_index from enumerate
EmbeddedImageIndex(img_index) == img_index + 1

IsDuplicateNever(h, hashes) == FALSE

\* if image_hash in image_hashes: continue
IsDuplicate(h, hashes) == h \in hashes

HashesAfterAddForgotten(h, hashes) == hashes

\* image_hashes.add(image_hash)
HashesAfterAdd(h, hashes) == hashes \cup {h}

\* if width < 100 or height < 100: continue
IsTooSmall(c) == ImageSize(c).width < MinImageDim \/ ImageSize(c).height < MinImageDim

\* insert_document_image: INSERT ... RETURNING id, then db.commit()
insert_document_image(rows, row) == rows \cup {row}

PageRenderRow(p) ==
    [run |-> imgRun, document_id |-> DocumentId, page_number |-> p,
     image_index |-> 0, kind |-> "page_render", hash |-> <<>>,
     width |-> PixmapSize(pdf[p].format).width,
     height |-> PixmapSize(pdf[p].format).height]

PageRenderDescriptor(p) ==
    [page_number |-> p, image_index |-> 0, type |-> "page_render", hash |-> <<>>,
     width |-> PixmapSize(pdf[p].format).width,
     height |-> PixmapSize(pdf[p].format).height]

EmbeddedRow(p, img_index, c) ==
    [run |-> imgRun, document_id |-> DocumentId, page_number |-> p,
     image_index |-> EmbeddedImageIndex(img_index), kind |-> "embedded",
     hash |-> ContentHash(c),
     width |-> ImageSize(c).width, height |-> ImageSize(c).height]

EmbeddedDescriptor(p, img_index, c) ==
    [page_number |-> p, image_index |-> EmbeddedImageIndex(img_index),
     type |-> "embedded", hash |-> ContentHash(c),
     width |-> ImageSize(c).width, height |-> ImageSize(c).height]

\* pages_with_text_count.get(page_num + 1, 0)
WordCountGet(page) == IF page.listed THEN page.words ELSE 0

NeedsRenderInclusive(word_count) == word_count <= text_threshold

\* if word_count < self.text_threshold
NeedsRender(word_count) == word_count < text_threshold

PcAfterRenderAborting(ok, last) ==
    IF ~ok THEN "failed" ELSE IF last THEN "scan" ELSE "render"

\* a render that fails is logged and the loop goes on; STEP 2 follows the
\* last page
PcAfterRender(ok, last) == IF last THEN "scan" ELSE "render"

ExtendedInFront(found, embedded) == embedded \o found

\* all_images.extend(embedded)
ExtendedWith(found, embedded) == found \o embedded

ImgLocalsReset ==
    /\ renderPage' = 1
    /\ scanPage' = 1
    /\ scanIdx' = 0
    /\ all_images' = <<>>
    /\ embedded_images' = <<>>
    /\ image_hashes' = {}
    /\ renderLog' = <<>>

InitImg ==
    /\ pdf \in Pdfs
    /\ imgRun = 1
    /\ imgPc = "called"
    /\ renderPage = 1
    /\ scanPage = 1
    /\ scanIdx = 0
    /\ all_images = <<>>
    /\ embedded_images = <<>>
    /\ image_hashes = {}
    /\ imageRows = {}
    /\ renderLog = <<>>
    /\ imgFaulted = FALSE

IdleImg ==
    /\ pdf = <<>>
    /\ imgRun = 0
    /\ imgPc = "idle"
    /\ renderPage = 1
    /\ scanPage = 1
    /\ scanIdx = 0
    /\ all_images = <<>>
    /\ embedded_images = <<>>
    /\ image_hashes = {}
    /\ imageRows = {}
    /\ renderLog = <<>>
    /\ imgFaulted = FALSE

\* doc = fitz.open(pdf_path); a failure is logged and re-raised
ImgOpen(ok) ==
    /\ imgPc = "called"
    /\ IF ok
       THEN /\ imgPc' = "render"
            /\ UNCHANGED imgFaulted
       ELSE /\ ~imgFaulted
            /\ imgFaulted' = TRUE
            /\ imgPc' = "failed"
    /\ UNCHANGED <<pdf, imgRun, renderPage, scanPage, scanIdx, all_images,
                   embedded_images, image_hashes, imageRows, renderLog>>
    /\ UNCHANGED <<chunkVars, ocrVars, embVars, searchVars, batchVars, docVars, ocrDocVars, routeVars, pdfRouteVars, insVars, readerVars, dbVars, runVars>>

\* one iteration of the STEP 1 loop: _render_page_as_image for a page with
\* fewer than text_threshold words; a failed render returns None
RenderPage(ok) ==
    /\ imgPc = "render"
    /\ renderPage <= NPages
    /\ LET word_count == WordCountGet(pdf[renderPage])
       IN  IF NeedsRender(word_count)
           THEN IF ok
                THEN /\ imageRows' = insert_document_image(imageRows,
                                                           PageRenderRow(renderPage))
                     /\ all_images' = Append(all_images,
                                             PageRenderDescriptor(renderPage))
                     /\ renderLog' = Append(renderLog, "rendered")
                     /\ UNCHANGED imgFaulted
                ELSE /\ ~imgFaulted
                     /\ imgFaulted' = TRUE
                     /\ renderLog' = Append(renderLog, "failed")
                     /\ UNCHANGED <<imageRows, all_images>>
           ELSE /\ ok
                /\ renderLog' = Append(renderLog, "skipped")
                /\ UNCHANGED <<imageRows, all_images, imgFaulted>>
    /\ renderPage' = renderPage + 1
    /\ imgPc' = PcAfterRender(ok, renderPage = NPages)
    /\ UNCHANGED <<pdf, imgRun, scanPage, scanIdx, embedded_images, image_hashes>>
    /\ UNCHANGED <<chunkVars, ocrVars, embVars, searchVars, batchVars, docVars, ocrDocVars, routeVars, pdfRouteVars, insVars, readerVars, dbVars, runVars>>

\* page = doc[page_num]; image_list = page.get_images(full=True): outside
\* the per-image try, so a failure leaves extract_all_images as an exception
ScanPageEnter(ok) ==
    /\ imgPc = "scan"
    /\ scanPage <= NPages
    /\ scanIdx = 0
    /\ IF ok
       THEN /\ IF pdf[scanPage].imgs = <<>>
               THEN scanPage' = scanPage + 1 /\ scanIdx' = 0
               ELSE scanPage' = scanPage /\ scanIdx' = 1
            /\ UNCHANGED <<imgPc, imgFaulted>>
       ELSE /\ ~imgFaulted
            /\ imgFaulted' = TRUE
            /\ imgPc' = "failed"
            /\ UNCHANGED <<scanPage, scanIdx>>
    /\ UNCHANGED <<pdf, imgRun, renderPage, all_images, embedded_images,
                   image_hashes, imageRows, renderLog>>
    /\ UNCHANGED <<chunkVars, ocrVars, embVars, searchVars, batchVars, docVars, ocrDocVars, routeVars, pdfRouteVars, insVars, readerVars, dbVars, runVars>>

ScanAdvance ==
    IF scanIdx < Len(pdf[scanPage].imgs)
    THEN scanPage' = scanPage /\ scanIdx' = scanIdx + 1
    ELSE scanPage' = scanPage + 1 /\ scanIdx' = 0

ImageOutcomes == {"ok", "fail_early", "fail_late"}

\* one iteration of the per-image loop. fail_early: doc.extract_image
\* raises; fail_late: Image.open, image.save or the insert raises, after the
\* hash has been recorded
ScanImage(outcome) ==
    /\ imgPc = "scan"
    /\ scanPage <= NPages
    /\ scanIdx >= 1
    /\ LET c == pdf[scanPage].imgs[scanIdx]
           h == ContentHash(c)
           img_index == scanIdx - 1
       IN  IF outcome = "fail_early"
           THEN /\ ~imgFaulted
                /\ imgFaulted' = TRUE
                /\ UNCHANGED <<image_hashes, imageRows, embedded_images>>
           ELSE IF IsDuplicate(h, image_hashes)
           THEN /\ outcome = "ok"
                /\ UNCHANGED <<image_hashes, imageRows, embedded_images, imgFaulted>>
           ELSE /\ image_hashes' = HashesAfterAdd(h, image_hashes)
                /\ IF outcome = "fail_late"
                   THEN /\ ~imgFaulted
                        /\ imgFaulted' = TRUE
                        /\ UNCHANGED <<imageRows, embedded_images>>
                   ELSE IF IsTooSmall(c)
                   THEN UNCHANGED <<imageRows, embedded_images, imgFaulted>>
                   ELSE /\ imageRows' = insert_document_image(imageRows,
                                            EmbeddedRow(scanPage, img_index, c))
                        /\ embedded_images' = Append(embedded_images,
                                            EmbeddedDescriptor(scanPage, img_index, c))
                        /\ UNCHANGED imgFaulted
    /\ ScanAdvance
    /\ UNCHANGED <<pdf, imgRun, imgPc, renderPage, all_images, renderLog>>
    /\ UNCHANGED <<chunkVars, ocrVars, embVars, searchVars, batchVars, docVars, ocrDocVars, routeVars, pdfRouteVars, insVars, readerVars, dbVars, runVars>>

\* all_images.extend(embedded); doc.close(); return all_images
ImgReturn ==
    /\ imgPc = "scan"
    /\ scanPage > NPages
    /\ all_images' = ExtendedWith(all_images, embedded_images)
    /\ imgPc' = "returned"
    /\ UNCHANGED <<pdf, imgRun, renderPage, scanPage, scanIdx, embedded_images,
                   image_hashes, imageRows, renderLog, imgFaulted>>
    /\ UNCHANGED <<chunkVars, ocrVars, embVars, searchVars, batchVars, docVars, ocrDocVars, routeVars, pdfRouteVars, insVars, readerVars, dbVars, runVars>>

\* extract_all_images is called again for the same document and file
ImgNextRun ==
    /\ imgPc \in {"returned", "failed"}
    /\ imgRun < MaxRuns
    /\ imgRun' = imgRun + 1
    /\ imgPc' = "called"
    /\ ImgLocalsReset
    /\ UNCHANGED <<pdf, imageRows, imgFaulted>>
    /\ UNCHANGED <<chunkVars, ocrVars, embVars, searchVars, batchVars, docVars, ocrDocVars, routeVars, pdfRouteVars, insVars, readerVars, dbVars, runVars>>

NextImg ==
    \/ \E ok \in BOOLEAN : ImgOpen(ok)
    \/ \E ok \in BOOLEAN : RenderPage(ok)
    \/ \E ok \in BOOLEAN : ScanPageEnter(ok)
    \/ \E o \in ImageOutcomes : ScanImage(o)
    \/ ImgReturn
    \/ ImgNextRun

(***************************************************************************)
(* EmbeddingService.generate_embedding / search_similar                    *)
(***************************************************************************)
MaxCandidates == 3
MaxTopK == 4
MinTopK == 0 - 2

\* embedding vectors; they are axis-aligned so that the cosine of any two of
\* them is exactly -1, 0 or 1 and ties between different vectors occur
Vectors == {<<1, 0>>, <<2, 0>>, <<0, 1>>, <<0 - 1, 0>>}

Queries == {<<>>, <<" ">>, <<"a">>, <<"b">>}

\* not text or not text.strip()
IsBlankText(t) == \A i \in 1..Len(t) : t[i] \in Whitespace

\* self.model.encode(text): the vector of one text; a text without any
\* token (empty or whitespace only) has a vector as well
ModelEncode(t) ==
    IF IsBlankText(t) THEN <<0 - 1, 0>>
    ELSE IF t[1] = "a" THEN <<1, 0>> ELSE <<0, 1>>

Dot(a, b) == a[1] * b[1] + a[2] * b[2]

\* np.linalg.norm
Norm(v) == CHOOSE r \in 0..Dot(v, v) : r * r = Dot(v, v)

\* np.dot(q, d) / (norm(q) * norm(d))
CosineSimilarity(q, d) == Dot(q, d) \div (Norm(q) * Norm(d))

CandidateLists ==
    UNION {{[i \in 1..n |-> [id |-> i, embedding |-> f[i]]] : f \in [1..n -> Vectors]}
           : n \in 0..MaxCandidates}

\* results.append({**item, 'similarity_score': ...}) for every item
Scored(q, items) ==
    [i \in 1..Len(items) |->
        [id |-> items[i].id, embedding |-> items[i].embedding,
         similarity_score |-> CosineSimilarity(q, items[i].embedding)]]

\* position of x in a list sorted by descending score: behind every element
\* whose score is not smaller (list.sort is stable, also with reverse=True)
RECURSIVE InsertDescending(_, _)
InsertDescending(sorted, x) ==
    IF sorted = <<>> THEN <<x>>
    ELSE IF Head(sorted).similarity_score >= x.similarity_score
         THEN <<Head(sorted)>> \o InsertDescending(Tail(sorted), x)
         ELSE <<x>> \o sorted

\* results.sort(key=lambda x: x['similarity_score'], reverse=True)
RECURSIVE SortDescending(_, _)
SortDescending(rs, acc) ==
    IF rs = <<>> THEN acc
    ELSE SortDescending(Tail(rs), InsertDescending(acc, Head(rs)))

\* results[:top_k]: a negative bound counts from the end of the list
SliceTo(rs, k) ==
    LET stop == IF k < 0 THEN (IF Len(rs) + k < 0 THEN 0 ELSE Len(rs) + k)
                ELSE Min(k, Len(rs))
    IN  SubSeq(rs, 1, stop)

search_similar(q, items, k) ==
    SliceTo(SortDescending(Scored(ModelEncode(q), items), <<>>), k)

InitSearch ==
    /\ query \in Queries
    /\ embeddings_list \in CandidateLists
    /\ top_k \in MinTopK..MaxTopK
    /\ searchResults = <<>>
    /\ searchPc = "called"

IdleSearch ==
    /\ query = <<>>
    /\ embeddings_list = <<>>
    /\ top_k = 0
    /\ searchResults = <<>>
    /\ searchPc = "idle"

\* generate_embedding raises ValueError on a blank query; search_similar
\* logs and re-raises
SearchRaise ==
    /\ searchPc = "called"
    /\ IsBlankText(query)
    /\ searchPc' = "raised"
    /\ UNCHANGED <<query, embeddings_list, top_k, searchResults>>
    /\ UNCHANGED <<chunkVars, ocrVars, embVars, imgVars, batchVars, docVars, ocrDocVars, routeVars, pdfRouteVars, insVars, readerVars, dbVars, runVars>>

SearchReturn ==
    /\ searchPc = "called"
    /\ ~IsBlankText(query)
    /\ searchResults' = search_similar(query, embeddings_list, top_k)
    /\ searchPc' = "returned"
    /\ UNCHANGED <<query, embeddings_list, top_k>>
    /\ UNCHANGED <<chunkVars, ocrVars, embVars, imgVars, batchVars, docVars, ocrDocVars, routeVars, pdfRouteVars, insVars, readerVars, dbVars, runVars>>

NextSearch ==
    \/ SearchRaise
    \/ SearchReturn

(***************************************************************************)
(* EmbeddingService.generate_batch_embeddings                              *)
(***************************************************************************)
MaxTexts == 3
MaxBatchSize == 2

BatchTexts == {<<>>, <<" ">>, <<"a">>, <<"b">>}

TextLists == UNION {[1..n -> BatchTexts] : n \in 0..MaxTexts}

SubBatchDroppingLast(ts, start, size) ==
    SubSeq(ts, start + 1, Min(start + size, Len(ts)) - 1)

\* model.encode(texts, batch_size=...): the texts of the sub-batch that
\* starts at start_index, texts[start_index : start_index + batch_size]
SubBatch(ts, start, size) == SubSeq(ts, start + 1, Min(start + size, Len(ts)))

\* the vectors of one sub-batch, in the order of its texts
EncodeSubBatch(sub) == [i \in 1..Len(sub) |-> ModelEncode(sub[i])]

InitBatch ==
    /\ batchTexts \in TextLists
    /\ batch_size \in 1..MaxBatchSize
    /\ batchStart = 0
    /\ backendSent = <<>>
    /\ encoded = <<>>
    /\ batchResult = <<>>
    /\ batchPc = "called"

IdleBatch ==
    /\ batchTexts = <<>>
    /\ batch_size = 1
    /\ batchStart = 0
    /\ backendSent = <<>>
    /\ encoded = <<>>
    /\ batchResult = <<>>
    /\ batchPc = "idle"

\* if not texts: return []
EmbedBatchEmpty ==
    /\ batchPc = "called"
    /\ batchTexts = <<>>
    /\ batchResult' = <<>>
    /\ batchPc' = "returned"
    /\ UNCHANGED <<batchTexts, batch_size, batchStart, backendSent, encoded>>
    /\ UNCHANGED <<chunkVars, ocrVars, embVars, imgVars, searchVars, docVars, ocrDocVars, routeVars, pdfRouteVars, insVars, readerVars, dbVars, runVars>>

\* one sub-batch inside self.model.encode(texts, batch_size=self.batch_size):
\* the texts go to the model as they were passed in; the model returns their
\* vectors, or raises, and then the except branch logs and re-raises
EmbedBatchEncode(ok) ==
    /\ batchPc \in {"called", "encoding"}
    /\ batchStart < Len(batchTexts)
    /\ LET sub == SubBatch(batchTexts, batchStart, batch_size)
       IN  /\ backendSent' = backendSent \o sub
           /\ IF ok
              THEN /\ encoded' = encoded \o EncodeSubBatch(sub)
                   /\ batchStart' = batchStart + batch_size
                   /\ batchPc' = "encoding"
              ELSE /\ batchPc' = "raised"
                   /\ UNCHANGED <<encoded, batchStart>>
    /\ UNCHANGED <<batchTexts, batch_size, batchResult>>
    /\ UNCHANGED <<chunkVars, ocrVars, embVars, imgVars, searchVars, docVars, ocrDocVars, routeVars, pdfRouteVars, insVars, readerVars, dbVars, runVars>>

\* return embeddings.tolist()
EmbedBatchReturn ==
    /\ batchPc = "encoding"
    /\ batchStart >= Len(batchTexts)
    /\ batchResult' = encoded
    /\ batchPc' = "returned"
    /\ UNCHANGED <<batchTexts, batch_size, batchStart, backendSent, encoded>>
    /\ UNCHANGED <<chunkVars, ocrVars, embVars, imgVars, searchVars, docVars, ocrDocVars, routeVars, pdfRouteVars, insVars, readerVars, dbVars, runVars>>

NextBatch ==
    \/ EmbedBatchEmpty
    \/ \E ok \in BOOLEAN : EmbedBatchEncode(ok)
    \/ EmbedBatchReturn

(***************************************************************************)
(* PDFProcessor.extract_text / process_document and                        *)
(* database.update_document_status / update_document_counts                *)
(***************************************************************************)
MaxCeiling == 2
MaxDocPages == MaxCeiling + 1

\* defaults of chunk_text's parameters
DefaultChunkSize == 500
DefaultOverlap == 50

PageTexts == {<<>>, <<" ">>, <<"a">>, <<"a", " ", "b">>}

DocPageLists == UNION {[1..n -> PageTexts] : n \in 0..MaxDocPages}

ExceedsPageLimitInclusive(n, ceiling) == n >= ceiling

\* if len(doc) > self.max_pages
ExceedsPageLimit(n, ceiling) == n > ceiling

\* word_count = len(text.split())
WordCount(t) == Len(SplitWords(t))

NotExtracted == [error |-> "not_called", pages_data |-> <<>>, word_counts |-> <<>>]

ExtractFailure(e) == [error |-> e, pages_data |-> <<>>, word_counts |-> <<>>]

\* extract_text: what the call returns (error "none") or the exception it
\* raises; readable is whether fitz.open and page.get_text succeed
extract_text(readable, pages, ceiling) ==
    IF ~readable THEN ExtractFailure("read_error")
    ELSE IF ExceedsPageLimit(Len(pages), ceiling) THEN ExtractFailure("page_limit")
    ELSE [error |-> "none",
          pages_data |-> [p \in 1..Len(pages) |->
                            [page_number |-> p, text |-> pages[p],
                             word_count |-> WordCount(pages[p])]],
          word_counts |-> [p \in 1..Len(pages) |-> WordCount(pages[p])]]

\* for i, chunk_text in enumerate(page_chunks): chunks.append({...})
EnumerateChunks(page_chunks, page_number) ==
    [i \in 1..Len(page_chunks) |->
        [content |-> page_chunks[i], page_number |-> page_number,
         chunk_index |-> i - 1]]

\* the chunk dicts of one page
PageChunks(page) ==
    IF page.word_count > 0
    THEN EnumerateChunks(chunk_text(page.text, DefaultChunkSize, DefaultOverlap),
                         page.page_number)
    ELSE <<>>

RECURSIVE DocChunks(_)
\* the chunks list process_document builds from pages_data
DocChunks(pages_data) ==
    IF pages_data = <<>> THEN <<>>
    ELSE PageChunks(Head(pages_data)) \o DocChunks(Tail(pages_data))

update_document_status_keeping_error(row, status, error) ==
    [row EXCEPT !.status = status]

\* UPDATE documents SET status = :status, processing_error = :error
update_document_status(row, status, error) ==
    [row EXCEPT !.status = status, !.processing_error = error]

\* UPDATE documents SET page_count = :page_count, image_count = :image_count
update_document_counts(row, page_count, image_count) ==
    [row EXCEPT !.page_count = page_count, !.image_count = image_count]

NoDocResult == [success |-> FALSE, page_count |-> 0 - 1, word_counts |-> <<>>,
                chunks |-> <<>>]

\* the documents row before the call: a fresh upload, or an earlier failure
InitialDocRows ==
    {[status |-> "pending", processing_error |-> "none", page_count |-> 0,
      image_count |-> 0],
     [status |-> "failed", processing_error |-> "earlier_error", page_count |-> 0,
      image_count |-> 0]}

InitDoc ==
    /\ docPages \in DocPageLists
    /\ max_pages \in 1..MaxCeiling
    /\ docRow \in InitialDocRows
    /\ docPc = "called"
    /\ docError = "none"
    /\ docRaised = "none"
    /\ extractOutcome = NotExtracted
    /\ docChunks = <<>>
    /\ docResult = NoDocResult

IdleDoc ==
    /\ docPages = <<>>
    /\ max_pages = 1
    /\ docRow = [status |-> "pending", processing_error |-> "none",
                 page_count |-> 0, image_count |-> 0]
    /\ docPc = "idle"
    /\ docError = "none"
    /\ docRaised = "none"
    /\ extractOutcome = NotExtracted
    /\ docChunks = <<>>
    /\ docResult = NoDocResult

\* an exception inside the try block: control goes to the except branch
DocCatch(e) ==
    /\ docError' = e
    /\ docPc' = "handling"

\* with get_db() as db: update_document_status(db, document_id, "processing")
DocMarkProcessing(ok) ==
    /\ docPc = "called"
    /\ IF ok
       THEN /\ docRow' = update_document_status(docRow, "processing", "none")
            /\ docPc' = "metadata"
            /\ UNCHANGED docError
       ELSE /\ DocCatch("status_update_error")
            /\ UNCHANGED docRow
    /\ UNCHANGED <<docPages, max_pages, docRaised, extractOutcome, docChunks, docResult>>
    /\ UNCHANGED <<chunkVars, ocrVars, embVars, imgVars, searchVars, batchVars, ocrDocVars, routeVars, pdfRouteVars, insVars, readerVars, dbVars, runVars>>

\* metadata = self.get_metadata(pdf_path)
DocGetMetadata(ok) ==
    /\ docPc = "metadata"
    /\ IF ok
       THEN /\ docPc' = "extract"
            /\ UNCHANGED docError
       ELSE DocCatch("metadata_error")
    /\ UNCHANGED <<docPages, max_pages, docRow, docRaised, extractOutcome, docChunks,
                   docResult>>
    /\ UNCHANGED <<chunkVars, ocrVars, embVars, imgVars, searchVars, batchVars, ocrDocVars, routeVars, pdfRouteVars, insVars, readerVars, dbVars, runVars>>

\* pages_data, word_counts = self.extract_text(pdf_path), then the loop that
\* builds chunks
DocExtractText(readable) ==
    /\ docPc = "extract"
    /\ extractOutcome' = extract_text(readable, docPages, max_pages)
    /\ IF extractOutcome'.error = "none"
       THEN /\ docChunks' = DocChunks(extractOutcome'.pages_data)
            /\ docPc' = "counts"
            /\ UNCHANGED docError
       ELSE /\ DocCatch(extractOutcome'.error)
            /\ UNCHANGED docChunks
    /\ UNCHANGED <<docPages, max_pages, docRow, docRaised, docResult>>
    /\ UNCHANGED <<chunkVars, ocrVars, embVars, imgVars, searchVars, batchVars, ocrDocVars, routeVars, pdfRouteVars, insVars, readerVars, dbVars, runVars>>

\* with get_db() as db: update_document_counts(...), then return result
DocUpdateCounts(ok) ==
    /\ docPc = "counts"
    /\ IF ok
       THEN /\ docRow' = update_document_counts(docRow, Len(docPages), 0)
            /\ docResult' = [success |-> TRUE,
                             page_count |-> Len(extractOutcome.pages_data),
                             word_counts |-> extractOutcome.word_counts,
                             chunks |-> docChunks]
            /\ docPc' = "returned"
            /\ UNCHANGED docError
       ELSE /\ DocCatch("counts_update_error")
            /\ UNCHANGED <<docRow, docResult>>
    /\ UNCHANGED <<docPages, max_pages, docRaised, extractOutcome, docChunks>>
    /\ UNCHANGED <<chunkVars, ocrVars, embVars, imgVars, searchVars, batchVars, ocrDocVars, routeVars, pdfRouteVars, insVars, readerVars, dbVars, runVars>>

\* the except branch: update_document_status(db, document_id, "failed",
\* str(e)) in a session of its own, then raise; when that update raises,
\* its exception leaves the call instead and the row is not written
DocHandleFailure(ok) ==
    /\ docPc = "handling"
    /\ IF ok
       THEN /\ docRow' = update_document_status(docRow, "failed", docError)
            /\ docRaised' = docError
       ELSE /\ docRaised' = "failed_status_update_error"
            /\ UNCHANGED docRow
    /\ docPc' = "raised"
    /\ UNCHANGED <<docPages, max_pages, docError, extractOutcome, docChunks, docResult>>
    /\ UNCHANGED <<chunkVars, ocrVars, embVars, imgVars, searchVars, batchVars, ocrDocVars, routeVars, pdfRouteVars, insVars, readerVars, dbVars, runVars>>

NextDoc ==
    \/ \E ok \in BOOLEAN : DocMarkProcessing(ok)
    \/ \E ok \in BOOLEAN : DocGetMetadata(ok)
    \/ \E readable \in BOOLEAN : DocExtractText(readable)
    \/ \E ok \in BOOLEAN : DocUpdateCounts(ok)
    \/ \E ok \in BOOLEAN : DocHandleFailure(ok)

(***************************************************************************)
(* OCRService.process_document_images over table document_images           *)
(***************************************************************************)

MaxImageRows == 3
MaxOcrBatchSize == 2

\* config.OCR_WORKERS, the default of self.workers
OCR_WORKERS == 4

OtherDocumentId == "doc2"

\* a row as insert_document_image leaves it: ocr_status 'pending', no text
PendingImageRow(d, p, k) ==
    [document_id |-> d, page_number |-> p, image_index |-> k,
     storage_path |-> "stored", ocr_status |-> "pending",
     ocr_text |-> "", ocr_confidence |-> 0]

\* a row an earlier run has already completed
CompletedImageRow(d, p, k) ==
    [document_id |-> d, page_number |-> p, image_index |-> k,
     storage_path |-> "stored", ocr_status |-> "completed",
     ocr_text |-> "old", ocr_confidence |-> 7000]

ImageRowKinds ==
    {PendingImageRow(DocumentId, 1, 1), PendingImageRow(DocumentId, 2, 0),
     CompletedImageRow(DocumentId, 1, 0), PendingImageRow(OtherDocumentId, 1, 0)}

ImageTables == UNION {[1..n -> ImageRowKinds] : n \in 0..MaxImageRows}

\* str(img[0]): the id column as the string the result dicts carry
IdStr(id) == <<"uuid", id>>

\* a fetch without the ocr_status condition
PendingIdsOfAnyStatus(table, d) ==
    {id \in DOMAIN table : table[id].document_id = d}
\* WHERE document_id = :document_id AND ocr_status = 'pending'
PendingIds(table, d) ==
    {id \in DOMAIN table :
        table[id].document_id = d /\ table[id].ocr_status = "pending"}

OrderKey(table, id) == <<table[id].page_number, table[id].image_index>>

KeyLeq(a, b) == a[1] < b[1] \/ (a[1] = b[1] /\ a[2] <= b[2])

\* a fetch that returns the pending rows in table order
get_pending_ocr_images_unordered(table, d) ==
    {sq \in [1..Cardinality(PendingIds(table, d)) -> PendingIds(table, d)] :
        \A a, b \in DOMAIN sq : a < b => sq[a] < sq[b]}
\* SELECT ... WHERE document_id = :d AND ocr_status = 'pending'
\* ORDER BY page_number, image_index: every order of the pending rows that
\* is sorted by the key (rows of equal key come in either order)
get_pending_ocr_images(table, d) ==
    {sq \in [1..Cardinality(PendingIds(table, d)) -> PendingIds(table, d)] :
        /\ \A a, b \in DOMAIN sq : a # b => sq[a] # sq[b]
        /\ \A a, b \in DOMAIN sq :
              a < b => KeyLeq(OrderKey(table, sq[a]), OrderKey(table, sq[b]))}

\* a sub-batch one image wider than self.batch_size
SubBatchPositionsTooWide(i, size, n) == {p \in 1..n : i < p /\ p <= i + size + 1}
\* images[i:i + self.batch_size], as positions of pending_images
SubBatchPositions(i, size, n) == {p \in 1..n : i < p /\ p <= i + size}

\* what process_image found in an image
OcrOutcomes == {"clear", "faint", "failed"}

\* what process_image can find in the image of a row: the images of page 1
\* read clearly, those of page 2 faintly, and either read may fail
OutcomesOfImage(row) ==
    IF row.page_number = 1 THEN {"clear", "failed"} ELSE {"faint", "failed"}

\* the result dict of process_image (confidence in hundredths of a percent)
OcrResult(image_id, outcome) ==
    IF outcome = "clear"
    THEN [image_id |-> image_id, text |-> "ab cd", confidence |-> 9000,
          status |-> "completed", word_count |-> 2]
    ELSE IF outcome = "faint"
    THEN [image_id |-> image_id, text |-> "ab", confidence |-> 8001,
          status |-> "completed", word_count |-> 1]
    ELSE [image_id |-> image_id, text |-> "", confidence |-> 0,
          status |-> "failed", word_count |-> 0]

\* an UPDATE without its WHERE clause
update_image_ocr_every_row(table, image_id, ocr_text, confidence, status) ==
    [id \in DOMAIN table |->
        [table[id] EXCEPT !.ocr_text = ocr_text,
                          !.ocr_confidence = confidence,
                          !.ocr_status = status]]
\* UPDATE document_images SET ocr_text, ocr_confidence, ocr_status
\* WHERE id = :image_id, committed
update_image_ocr(table, image_id, ocr_text, confidence, status) ==
    [id \in DOMAIN table |->
        IF IdStr(id) = image_id
        THEN [table[id] EXCEPT !.ocr_text = ocr_text,
                               !.ocr_confidence = confidence,
                               !.ocr_status = status]
        ELSE table[id]]

RECURSIVE CountCompleted(_)
CountCompleted(rs) ==
    IF rs = <<>> THEN 0
    ELSE (IF rs[1].status = "completed" THEN 1 ELSE 0) + CountCompleted(Tail(rs))

RECURSIVE SumWordCount(_)
SumWordCount(rs) ==
    IF rs = <<>> THEN 0 ELSE rs[1].word_count + SumWordCount(Tail(rs))

RECURSIVE SumCompletedConfidence(_)
SumCompletedConfidence(rs) ==
    IF rs = <<>> THEN 0
    ELSE (IF rs[1].status = "completed" THEN rs[1].confidence ELSE 0)
         + SumCompletedConfidence(Tail(rs))

\* round(a / n, 2) on hundredths: the nearest hundredth, ties to even
RoundQuotient(a, n) ==
    LET q == a \div n
        r == a % n
    IN  IF 2 * r < n THEN q
        ELSE IF 2 * r > n THEN q + 1
        ELSE IF q % 2 = 0 THEN q ELSE q + 1

AverageConfidence(rs) ==
    IF CountCompleted(rs) > 0
    THEN RoundQuotient(SumCompletedConfidence(rs), CountCompleted(rs))
    ELSE 0

\* the dict returned after the loop
OcrSummary(rs) ==
    [document_id |-> DocumentId,
     images_processed |-> Len(rs),
     images_successful |-> CountCompleted(rs),
     images_failed |-> Len(rs) - CountCompleted(rs),
     total_words |-> SumWordCount(rs),
     average_confidence |-> AverageConfidence(rs),
     success |-> TRUE]

\* the dict returned when no image is pending
NoPendingSummary ==
    [document_id |-> DocumentId, images_processed |-> 0, success |-> TRUE]

\* a failure dict whose error text is lost
OcrFailureSummaryBlank(e) ==
    [document_id |-> DocumentId, images_processed |-> 0, success |-> FALSE,
     error |-> ""]
\* the dict the except branch returns
OcrFailureSummary(e) ==
    [document_id |-> DocumentId, images_processed |-> 0, success |-> FALSE,
     error |-> e]

NoOcrDocResult == [document_id |-> "none"]

QueueSubBatch(units, i, size) ==
    [p \in DOMAIN units |->
        IF p \in SubBatchPositions(i, size, Len(units)) THEN "queued" ELSE units[p]]

InitOcrDoc ==
    /\ document_images \in ImageTables
    /\ ocr_batch_size \in 1..MaxOcrBatchSize
    /\ pending_images = <<>>
    /\ ocrBatchStart = 0
    /\ ocrUnits = <<>>
    /\ batch_results = <<>>
    /\ all_results = <<>>
    /\ persistPos = 0
    /\ ocrDocResult = NoOcrDocResult
    /\ ocrDocFault = "none"
    /\ ocrDocPc = "called"

IdleOcrDoc ==
    /\ document_images = <<>>
    /\ ocr_batch_size = 1
    /\ pending_images = <<>>
    /\ ocrBatchStart = 0
    /\ ocrUnits = <<>>
    /\ batch_results = <<>>
    /\ all_results = <<>>
    /\ persistPos = 0
    /\ ocrDocResult = NoOcrDocResult
    /\ ocrDocFault = "none"
    /\ ocrDocPc = "idle"

\* with get_db(): get_pending_ocr_images; the early return; the images list
\* and the submission of the first sub-batch
OcrDocFetch(ok) ==
    /\ ocrDocPc = "called"
    /\ IF ~ok
       THEN /\ ocrDocResult' = OcrFailureSummary("fetch_error")
            /\ ocrDocFault' = "fetch_error"
            /\ ocrDocPc' = "returned"
            /\ UNCHANGED <<pending_images, ocrUnits>>
       ELSE \E fetched \in get_pending_ocr_images(document_images, DocumentId) :
              /\ pending_images' = fetched
              /\ UNCHANGED ocrDocFault
              /\ IF fetched = <<>>
                 THEN /\ ocrDocResult' = NoPendingSummary
                      /\ ocrDocPc' = "returned"
                      /\ UNCHANGED ocrUnits
                 ELSE /\ ocrUnits' = QueueSubBatch([p \in 1..Len(fetched) |-> "waiting"],
                                                   0, ocr_batch_size)
                      /\ ocrDocPc' = "in_batch"
                      /\ UNCHANGED ocrDocResult
    /\ UNCHANGED <<document_images, ocr_batch_size, ocrBatchStart, batch_results,
                   all_results, persistPos>>
    /\ UNCHANGED <<chunkVars, ocrVars, embVars, imgVars, searchVars, batchVars, docVars, routeVars, pdfRouteVars, insVars, readerVars, dbVars, runVars>>

\* a pool thread takes the oldest queued unit of the sub-batch
OcrUnitStart(p) ==
    /\ ocrDocPc = "in_batch"
    /\ ocrUnits[p] = "queued"
    /\ \A q \in DOMAIN ocrUnits : ocrUnits[q] = "queued" => p <= q
    /\ PoolHasIdleWorker(Cardinality({q \in DOMAIN ocrUnits : ocrUnits[q] = "running"}),
                         OCR_WORKERS)
    /\ ocrUnits' = [ocrUnits EXCEPT ![p] = "running"]
    /\ UNCHANGED <<document_images, ocr_batch_size, pending_images, ocrBatchStart,
                   batch_results, all_results, persistPos, ocrDocResult, ocrDocFault,
                   ocrDocPc>>
    /\ UNCHANGED <<chunkVars, ocrVars, embVars, imgVars, searchVars, batchVars, docVars, routeVars, pdfRouteVars, insVars, readerVars, dbVars, runVars>>

\* process_image returns and as_completed hands its result to the loop
OcrUnitFinish(p, outcome) ==
    /\ ocrDocPc = "in_batch"
    /\ ocrUnits[p] = "running"
    /\ outcome \in OutcomesOfImage(document_images[pending_images[p]])
    /\ ocrUnits' = [ocrUnits EXCEPT ![p] = "done"]
    /\ batch_results' = Append(batch_results,
                               OcrResult(IdStr(pending_images[p]), outcome))
    /\ UNCHANGED <<document_images, ocr_batch_size, pending_images, ocrBatchStart,
                   all_results, persistPos, ocrDocResult, ocrDocFault, ocrDocPc>>
    /\ UNCHANGED <<chunkVars, ocrVars, embVars, imgVars, searchVars, batchVars, docVars, routeVars, pdfRouteVars, insVars, readerVars, dbVars, runVars>>

\* process_batch returns; all_results.extend(batch_results); get_db opens
OcrBatchReturn ==
    /\ ocrDocPc = "in_batch"
    /\ \A p \in DOMAIN ocrUnits : ocrUnits[p] \in {"waiting", "done"}
    /\ all_results' = all_results \o batch_results
    /\ persistPos' = 1
    /\ ocrDocPc' = "persisting"
    /\ UNCHANGED <<document_images, ocr_batch_size, pending_images, ocrBatchStart,
                   ocrUnits, batch_results, ocrDocResult, ocrDocFault>>
    /\ UNCHANGED <<chunkVars, ocrVars, embVars, imgVars, searchVars, batchVars, docVars, routeVars, pdfRouteVars, insVars, readerVars, dbVars, runVars>>

\* a writer that takes the row from the place of the result in the list
ResultRowKeyByPosition(result, pos) == IdStr(pending_images[ocrBatchStart + pos])
\* the image_id argument of update_image_ocr for the result at position pos
\* of batch_results: result['image_id']
ResultRowKey(result, pos) == result.image_id

\* one update_image_ocr of the persistence loop
OcrPersist(ok) ==
    /\ ocrDocPc = "persisting"
    /\ persistPos <= Len(batch_results)
    /\ IF ok
       THEN LET result == batch_results[persistPos]
            IN  /\ document_images' =
                      update_image_ocr(document_images,
                                       ResultRowKey(result, persistPos), result.text,
                                       result.confidence, result.status)
                /\ persistPos' = persistPos + 1
                /\ UNCHANGED <<ocrDocResult, ocrDocFault, ocrDocPc>>
       ELSE /\ ocrDocResult' = OcrFailureSummary("update_error")
            /\ ocrDocFault' = "update_error"
            /\ ocrDocPc' = "returned"
            /\ UNCHANGED <<document_images, persistPos>>
    /\ UNCHANGED <<ocr_batch_size, pending_images, ocrBatchStart, ocrUnits,
                   batch_results, all_results>>
    /\ UNCHANGED <<chunkVars, ocrVars, embVars, imgVars, searchVars, batchVars, docVars, routeVars, pdfRouteVars, insVars, readerVars, dbVars, runVars>>

\* the persistence block is left (db.commit of get_db), then the loop
\* submits the next sub-batch or the summary is returned
OcrBatchPersisted(ok) ==
    /\ ocrDocPc = "persisting"
    /\ persistPos > Len(batch_results)
    /\ IF ~ok
       THEN /\ ocrDocResult' = OcrFailureSummary("commit_error")
            /\ ocrDocFault' = "commit_error"
            /\ ocrDocPc' = "returned"
            /\ UNCHANGED <<ocrBatchStart, ocrUnits, batch_results>>
       ELSE IF ocrBatchStart + ocr_batch_size < Len(pending_images)
       THEN /\ ocrBatchStart' = ocrBatchStart + ocr_batch_size
            /\ ocrUnits' = QueueSubBatch(ocrUnits, ocrBatchStart + ocr_batch_size,
                                         ocr_batch_size)
            /\ batch_results' = <<>>
            /\ ocrDocPc' = "in_batch"
            /\ UNCHANGED <<ocrDocResult, ocrDocFault>>
       ELSE /\ ocrDocResult' = OcrSummary(all_results)
            /\ ocrDocPc' = "returned"
            /\ UNCHANGED <<ocrBatchStart, ocrUnits, batch_results, ocrDocFault>>
    /\ UNCHANGED <<document_images, ocr_batch_size, pending_images, all_results,
                   persistPos>>
    /\ UNCHANGED <<chunkVars, ocrVars, embVars, imgVars, searchVars, batchVars, docVars, routeVars, pdfRouteVars, insVars, readerVars, dbVars, runVars>>

NextOcrDoc ==
    \/ \E ok \in BOOLEAN : OcrDocFetch(ok)
    \/ \E p \in DOMAIN ocrUnits : OcrUnitStart(p)
    \/ \E p \in DOMAIN ocrUnits, outcome \in OcrOutcomes : OcrUnitFinish(p, outcome)
    \/ OcrBatchReturn
    \/ \E ok \in BOOLEAN : OcrPersist(ok)
    \/ \E ok \in BOOLEAN : OcrBatchPersisted(ok)

(***************************************************************************)
(* Batch routes: ocr_routes.process_batch_images and                       *)
(* embedding_routes.generate_embeddings, generate_batch_embeddings         *)
(***************************************************************************)

MaxRequestLen == 501

\* `if len(request.images) > 50`
OcrBatchCeiling == 50

\* `if len(texts) > 500`
EmbedBatchCeiling == 500

OcrBatchRoute == "ocr/process-batch"
EmbedRoutes == {"embeddings/generate", "embeddings/generate-batch"}
BatchRoutes == {OcrBatchRoute} \cup EmbedRoutes

NoException == [type |-> "none", status_code |-> 0]
HttpException(code) == [type |-> "HTTPException", status_code |-> code]
ServiceException == [type |-> "Exception", status_code |-> 0]

\* the size check of a route: the ceiling it compares against, or -1 when
\* the route has no size check
RouteCeiling(entry) ==
    IF entry = OcrBatchRoute THEN OcrBatchCeiling
    ELSE IF entry = "embeddings/generate" THEN EmbedBatchCeiling
    ELSE 0 - 1

\* the checks at the head of the try block: the exception they raise
RouteValidation(entry, n) ==
    IF n = 0 THEN HttpException(400)
    ELSE IF RouteCeiling(entry) >= 0 /\ n > RouteCeiling(entry) THEN HttpException(400)
    ELSE NoException

\* whether the route has `except HTTPException: raise` ahead of
\* `except Exception`
ReraisesHttpException(entry) == entry = "embeddings/generate"

\* the status of the response the except clauses produce for an exception
\* raised inside the try block
StatusAfterExcept(entry, e) ==
    IF e.type = "HTTPException" /\ ReraisesHttpException(entry)
    THEN e.status_code
    ELSE 500

InitRoute ==
    /\ routeEntry \in BatchRoutes
    /\ requestLen \in 0..MaxRequestLen
    /\ routeRaised = NoException
    /\ serviceCalls = 0
    /\ routeStatus = 0
    /\ routePc = "received"

IdleRoute ==
    /\ routeEntry = "none"
    /\ requestLen = 0
    /\ routeRaised = NoException
    /\ serviceCalls = 0
    /\ routeStatus = 0
    /\ routePc = "idle"

\* the checks before the service call
RouteValidate ==
    /\ routePc = "received"
    /\ routeRaised' = RouteValidation(routeEntry, requestLen)
    /\ routePc' = IF RouteValidation(routeEntry, requestLen) = NoException
                  THEN "calling" ELSE "handling"
    /\ UNCHANGED <<routeEntry, requestLen, serviceCalls, routeStatus>>
    /\ UNCHANGED <<chunkVars, ocrVars, embVars, imgVars, searchVars, batchVars, docVars, ocrDocVars, pdfRouteVars, insVars, readerVars, dbVars, runVars>>

\* ocr_service.process_batch / embedding_service.generate_batch_embeddings
\* is called and returns or raises
RouteCallService(ok) ==
    /\ routePc = "calling"
    /\ serviceCalls' = serviceCalls + 1
    /\ IF ok
       THEN /\ routeStatus' = 200
            /\ routePc' = "responded"
            /\ UNCHANGED routeRaised
       ELSE /\ routeRaised' = ServiceException
            /\ routePc' = "handling"
            /\ UNCHANGED routeStatus
    /\ UNCHANGED <<routeEntry, requestLen>>
    /\ UNCHANGED <<chunkVars, ocrVars, embVars, imgVars, searchVars, batchVars, docVars, ocrDocVars, pdfRouteVars, insVars, readerVars, dbVars, runVars>>

\* the except clauses of the route
RouteExcept ==
    /\ routePc = "handling"
    /\ routeStatus' = StatusAfterExcept(routeEntry, routeRaised)
    /\ routePc' = "responded"
    /\ UNCHANGED <<routeEntry, requestLen, routeRaised, serviceCalls>>
    /\ UNCHANGED <<chunkVars, ocrVars, embVars, imgVars, searchVars, batchVars, docVars, ocrDocVars, pdfRouteVars, insVars, readerVars, dbVars, runVars>>

NextRoute ==
    \/ RouteValidate
    \/ \E ok \in BOOLEAN : RouteCallService(ok)
    \/ RouteExcept

(***************************************************************************)
(* pdf_routes.process_pdf and pdf_routes.extract_images, which run         *)
(* process_document and, for extract_images, then extract_all_images       *)
(***************************************************************************)

PdfRoutes == {"pdf/process", "pdf/extract-images"}

\* how image_service.extract_all_images ends: it returns the image list, or
\* fitz.open or a later step raises and the except branch re-raises
ExtractAllImagesOutcomes == {"returned", "open_error", "scan_error"}

InitPdfRoute ==
    /\ pdfRoute \in PdfRoutes
    /\ pdfImagesError = "none"
    /\ pdfResponse = 0
    /\ pdfRoutePc = "in_process_document"

IdlePdfRoute ==
    /\ pdfRoute = "none"
    /\ pdfImagesError = "none"
    /\ pdfResponse = 0
    /\ pdfRoutePc = "idle"

\* process_document raised: except Exception of the route answers 500
PdfRouteProcessDocumentRaised ==
    /\ pdfRoutePc = "in_process_document"
    /\ docPc = "raised"
    /\ pdfResponse' = 500
    /\ pdfRoutePc' = "responded"
    /\ UNCHANGED <<pdfRoute, pdfImagesError>>
    /\ UNCHANGED <<chunkVars, ocrVars, embVars, imgVars, searchVars, batchVars, docVars, ocrDocVars, routeVars, insVars, readerVars, dbVars, runVars>>

\* process_pdf: process_document returned, the result is the response
PdfRouteProcessReturn ==
    /\ pdfRoutePc = "in_process_document"
    /\ pdfRoute = "pdf/process"
    /\ docPc = "returned"
    /\ pdfResponse' = 200
    /\ pdfRoutePc' = "responded"
    /\ UNCHANGED <<pdfRoute, pdfImagesError>>
    /\ UNCHANGED <<chunkVars, ocrVars, embVars, imgVars, searchVars, batchVars, docVars, ocrDocVars, routeVars, insVars, readerVars, dbVars, runVars>>

\* extract_images: process_document returned; word_counts is read and
\* extract_all_images runs; when it raises, except Exception answers 500
PdfRouteExtractAllImages(outcome) ==
    /\ pdfRoutePc = "in_process_document"
    /\ pdfRoute = "pdf/extract-images"
    /\ docPc = "returned"
    /\ IF outcome = "returned"
       THEN /\ pdfResponse' = 200
            /\ UNCHANGED pdfImagesError
       ELSE /\ pdfImagesError' = outcome
            /\ pdfResponse' = 500
    /\ pdfRoutePc' = "responded"
    /\ UNCHANGED pdfRoute
    /\ UNCHANGED <<chunkVars, ocrVars, embVars, imgVars, searchVars, batchVars, docVars, ocrDocVars, routeVars, insVars, readerVars, dbVars, runVars>>

NextPdfRoutes ==
    \/ NextDoc
    \/ PdfRouteProcessDocumentRaised
    \/ PdfRouteProcessReturn
    \/ \E outcome \in ExtractAllImagesOutcomes : PdfRouteExtractAllImages(outcome)

(***************************************************************************)
(* database.insert_document_images_batch, called with a get_db session     *)
(***************************************************************************)

MaxBatchImages == 3

\* the image dicts of a batch: the same dict may occur twice
ImageDicts == [page_number : {1, 2}, image_index : {0, 1}]

ImageBatches == UNION {[1..n -> ImageDicts] : n \in 0..MaxBatchImages}

NotReturned == <<"not returned">>

InsDb == [session |-> insSession, rows |-> insRows]

\* gen_random_uuid(): an id no row of the table or of the transaction has
NewImageId(db) == Cardinality(db.rows) + Len(db.session) + 1

\* the row INSERT INTO document_images ... RETURNING id writes for img
InsertedImageRow(id, img) ==
    [id |-> id, document_id |-> DocumentId, page_number |-> img.page_number,
     image_index |-> img.image_index, ocr_status |-> "pending"]

\* an insert that commits on its own, as insert_document_image does
execute_insert_committing(db, row) ==
    [session |-> <<>>,
     rows |-> db.rows \cup {db.session[k] : k \in 1..Len(db.session)} \cup {row}]
\* db.execute(INSERT ...) in the caller's transaction, no commit
execute_insert(db, row) ==
    [session |-> Append(db.session, row), rows |-> db.rows]

\* rows an earlier, committed batch left in the table
EarlierImageRows == {{}, {InsertedImageRow(0, [page_number |-> 1, image_index |-> 0])}}

InitIns ==
    /\ insImages \in ImageBatches
    /\ insRows \in EarlierImageRows
    /\ insSession = <<>>
    /\ insIds = <<>>
    /\ insReturn = NotReturned
    /\ insPc = "called"

IdleIns ==
    /\ insImages = <<>>
    /\ insRows = {}
    /\ insSession = <<>>
    /\ insIds = <<>>
    /\ insReturn = NotReturned
    /\ insPc = "idle"

\* `if not images: return []`, else ids = []
InsBatchEnter ==
    /\ insPc = "called"
    /\ IF insImages = <<>>
       THEN /\ insReturn' = <<>>
            /\ insPc' = "returned"
       ELSE /\ insPc' = "inserting"
            /\ UNCHANGED insReturn
    /\ UNCHANGED <<insImages, insRows, insSession, insIds>>
    /\ UNCHANGED <<chunkVars, ocrVars, embVars, imgVars, searchVars, batchVars, docVars, ocrDocVars, routeVars, pdfRouteVars, readerVars, dbVars, runVars>>

\* one iteration of the loop: db.execute(INSERT ... RETURNING id) and
\* ids.append; when the insert raises, the exception leaves the function and
\* get_db rolls the transaction back
InsBatchExecute(ok) ==
    /\ insPc = "inserting"
    /\ Len(insIds) < Len(insImages)
    /\ LET img == insImages[Len(insIds) + 1]
           id == NewImageId(InsDb)
           db == IF ok
                 THEN execute_insert(InsDb, InsertedImageRow(id, img))
                 ELSE SessionRollback(InsDb)
       IN  /\ insSession' = db.session
           /\ insRows' = db.rows
           /\ insIds' = IF ok THEN Append(insIds, id) ELSE insIds
    /\ insPc' = IF ok THEN "inserting" ELSE "raised"
    /\ UNCHANGED <<insImages, insReturn>>
    /\ UNCHANGED <<chunkVars, ocrVars, embVars, imgVars, searchVars, batchVars, docVars, ocrDocVars, routeVars, pdfRouteVars, readerVars, dbVars, runVars>>

\* db.commit() after the loop, then return ids; when the commit raises,
\* get_db rolls back
InsBatchCommit(ok) ==
    /\ insPc = "inserting"
    /\ Len(insIds) = Len(insImages)
    /\ LET db == IF ok THEN SessionCommit(InsDb) ELSE SessionRollback(InsDb)
       IN  /\ insSession' = db.session
           /\ insRows' = db.rows
    /\ insReturn' = IF ok THEN insIds ELSE insReturn
    /\ insPc' = IF ok THEN "returned" ELSE "raised"
    /\ UNCHANGED <<insImages, insIds>>
    /\ UNCHANGED <<chunkVars, ocrVars, embVars, imgVars, searchVars, batchVars, docVars, ocrDocVars, routeVars, pdfRouteVars, readerVars, dbVars, runVars>>

NextIns ==
    \/ InsBatchEnter
    \/ \E ok \in BOOLEAN : InsBatchExecute(ok)
    \/ \E ok \in BOOLEAN : InsBatchCommit(ok)

(***************************************************************************)
(* OCRService.reader: the property that loads the EasyOCR reader on first  *)
(* use, read by main.startup_event and by the pool threads of              *)
(* process_batch                                                           *)
(***************************************************************************)

MaxReaderThreads == 3

\* self._reader = None
NoReader == 0

\* if self._reader is None
ReaderIsNone(handle) == handle = NoReader

\* a pool thread that has taken a task and not yet read self.reader
ThreadAtReadtext == [pc |-> "enter", handle |-> NoReader]

InitReader ==
    /\ reader = NoReader
    /\ readerLoads = 0
    /\ readerHealth = "pending"
    /\ readerThreads \in {[t \in 1..n |-> ThreadAtReadtext] : n \in 1..MaxReaderThreads}

IdleReader ==
    /\ reader = NoReader
    /\ readerLoads = 0
    /\ readerHealth = "idle"
    /\ readerThreads = <<>>

\* startup_event: ocr_service.health_check() reads self.reader in the main
\* thread before any request is served; a failed load is caught and the
\* service starts all the same
ReaderHealthCheck(ok) ==
    /\ readerHealth = "pending"
    /\ IF ok
       THEN /\ reader' = readerLoads + 1
            /\ readerLoads' = readerLoads + 1
            /\ readerHealth' = "available"
       ELSE /\ readerHealth' = "unavailable"
            /\ UNCHANGED <<reader, readerLoads>>
    /\ UNCHANGED readerThreads
    /\ UNCHANGED <<chunkVars, ocrVars, embVars, imgVars, searchVars, batchVars, docVars, ocrDocVars, routeVars, pdfRouteVars, insVars, dbVars, runVars>>

\* a pool thread enters the property: the test `self._reader is None`, and
\* `return self._reader` when it is not
ReaderTest(t) ==
    /\ readerHealth \in {"available", "unavailable"}
    /\ readerThreads[t].pc = "enter"
    /\ readerThreads' =
          [readerThreads EXCEPT ![t] =
              IF ReaderIsNone(reader)
              THEN [pc |-> "loading", handle |-> NoReader]
              ELSE [pc |-> "readtext", handle |-> reader]]
    /\ UNCHANGED <<reader, readerLoads, readerHealth>>
    /\ UNCHANGED <<chunkVars, ocrVars, embVars, imgVars, searchVars, batchVars, docVars, ocrDocVars, routeVars, pdfRouteVars, insVars, dbVars, runVars>>

\* the thread that saw None: self._reader = easyocr.Reader(...), which
\* takes seconds; when the constructor raises, process_image catches it
ReaderLoad(t, ok) ==
    /\ readerThreads[t].pc = "loading"
    /\ IF ok
       THEN /\ reader' = readerLoads + 1
            /\ readerLoads' = readerLoads + 1
            /\ readerThreads' =
                  [readerThreads EXCEPT ![t] =
                      [pc |-> "readtext", handle |-> readerLoads + 1]]
       ELSE /\ readerThreads' =
                  [readerThreads EXCEPT ![t] = [pc |-> "failed", handle |-> NoReader]]
            /\ UNCHANGED <<reader, readerLoads>>
    /\ UNCHANGED readerHealth
    /\ UNCHANGED <<chunkVars, ocrVars, embVars, imgVars, searchVars, batchVars, docVars, ocrDocVars, routeVars, pdfRouteVars, insVars, dbVars, runVars>>

NextReader ==
    \/ \E ok \in BOOLEAN : ReaderHealthCheck(ok)
    \/ \E t \in DOMAIN readerThreads : ReaderTest(t)
    \/ \E t \in DOMAIN readerThreads, ok \in BOOLEAN : ReaderLoad(t, ok)

(***************************************************************************)
(* database.get_db: the with statements of one operation, one after the    *)
(* other (process_document has three, process_document_images one per      *)
(* sub-batch besides the fetch)                                            *)
(***************************************************************************)

MaxSessions == 2
MaxStatements == 2

\* a generator that re-raises without a finally clause
PcAfterExceptWithoutFinally == "ready"
\* except Exception: db.rollback(); raise, and then finally: db.close()
PcAfterExcept == "finally"

InitDb ==
    /\ dbOpen = {}
    /\ dbOpened = 0
    /\ dbTodo = 0
    /\ dbCalls = <<>>
    /\ dbLeft = "none"
    /\ dbPc = "ready"

IdleDb ==
    /\ dbOpen = {}
    /\ dbOpened = 0
    /\ dbTodo = 0
    /\ dbCalls = <<>>
    /\ dbLeft = "none"
    /\ dbPc = "idle"

\* with get_db() as db: db = SessionLocal(), then yield db; the block has n
\* statements. When SessionLocal() raises there is no session and the
\* exception leaves the with statement.
DbEnter(ok, n) ==
    /\ dbPc = "ready"
    /\ dbOpened < MaxSessions
    /\ dbCalls' = <<>>
    /\ IF ok
       THEN /\ dbOpen' = dbOpen \cup {dbOpened + 1}
            /\ dbOpened' = dbOpened + 1
            /\ dbTodo' = n
            /\ dbLeft' = "none"
            /\ dbPc' = "in_block"
       ELSE /\ dbLeft' = "not_opened"
            /\ UNCHANGED <<dbOpen, dbOpened, dbTodo, dbPc>>
    /\ UNCHANGED <<chunkVars, ocrVars, embVars, imgVars, searchVars, batchVars, docVars, ocrDocVars, routeVars, pdfRouteVars, insVars, readerVars, runVars>>

\* a statement of the block on the session; when it raises, the exception
\* is thrown into the generator at the yield
DbStatement(ok) ==
    /\ dbPc = "in_block"
    /\ dbTodo > 0
    /\ dbCalls' = Append(dbCalls, "execute")
    /\ IF ok
       THEN /\ dbTodo' = dbTodo - 1
            /\ UNCHANGED dbPc
       ELSE /\ dbPc' = "except"
            /\ UNCHANGED dbTodo
    /\ UNCHANGED <<dbOpen, dbOpened, dbLeft>>
    /\ UNCHANGED <<chunkVars, ocrVars, embVars, imgVars, searchVars, batchVars, docVars, ocrDocVars, routeVars, pdfRouteVars, insVars, readerVars, runVars>>

\* the block ends (its last statement, or a return inside it): the
\* generator resumes after the yield with db.commit()
DbCommit(ok) ==
    /\ dbPc = "in_block"
    /\ dbTodo = 0
    /\ dbCalls' = Append(dbCalls, "commit")
    /\ IF ok
       THEN /\ dbLeft' = "normal"
            /\ dbPc' = "finally"
       ELSE /\ dbPc' = "except"
            /\ UNCHANGED dbLeft
    /\ UNCHANGED <<dbOpen, dbOpened, dbTodo>>
    /\ UNCHANGED <<chunkVars, ocrVars, embVars, imgVars, searchVars, batchVars, docVars, ocrDocVars, routeVars, pdfRouteVars, insVars, readerVars, runVars>>

\* except Exception as e: db.rollback(); logger.error; raise. When the
\* rollback raises, its exception leaves instead; the finally clause runs
\* either way
DbExcept(ok) ==
    /\ dbPc = "except"
    /\ dbCalls' = Append(dbCalls, IF ok THEN "rollback" ELSE "rollback_raised")
    /\ dbLeft' = "raised"
    /\ dbPc' = PcAfterExcept
    /\ UNCHANGED <<dbOpen, dbOpened, dbTodo>>
    /\ UNCHANGED <<chunkVars, ocrVars, embVars, imgVars, searchVars, batchVars, docVars, ocrDocVars, routeVars, pdfRouteVars, insVars, readerVars, runVars>>

\* finally: db.close(); the with statement is left
DbFinally ==
    /\ dbPc = "finally"
    /\ dbCalls' = Append(dbCalls, "close")
    /\ dbOpen' = dbOpen \ {dbOpened}
    /\ dbPc' = "ready"
    /\ UNCHANGED <<dbOpened, dbTodo, dbLeft>>
    /\ UNCHANGED <<chunkVars, ocrVars, embVars, imgVars, searchVars, batchVars, docVars, ocrDocVars, routeVars, pdfRouteVars, insVars, readerVars, runVars>>

\* the operation that used the sessions returns or raises to its caller
DbOperationReturn ==
    /\ dbPc = "ready"
    /\ dbLeft # "none"
    /\ dbPc' = "returned"
    /\ UNCHANGED <<dbOpen, dbOpened, dbTodo, dbCalls, dbLeft>>
    /\ UNCHANGED <<chunkVars, ocrVars, embVars, imgVars, searchVars, batchVars, docVars, ocrDocVars, routeVars, pdfRouteVars, insVars, readerVars, runVars>>

NextDb ==
    \/ \E ok \in BOOLEAN, n \in 0..MaxStatements : DbEnter(ok, n)
    \/ \E ok \in BOOLEAN : DbStatement(ok)
    \/ \E ok \in BOOLEAN : DbCommit(ok)
    \/ \E ok \in BOOLEAN : DbExcept(ok)
    \/ DbFinally
    \/ DbOperationReturn

(***************************************************************************)
(* Two calls of OCRService.process_document_images for the same document,  *)
(* in two worker processes of the service, on the one table                *)
(* document_images. Every SQL statement is one step.                       *)
(***************************************************************************)

MaxSharedRows == 2

\* config.OCR_BATCH_SIZE, the default of self.batch_size
OCR_BATCH_SIZE == 20

OcrCalls == {1, 2}

\* the tables the calls start on: the row of id i is the image of page i,
\* still pending or completed by an earlier run
SharedTables ==
    UNION {{[i \in 1..n |-> IF i \in done
                            THEN CompletedImageRow(DocumentId, i, 0)
                            ELSE PendingImageRow(DocumentId, i, 0)] :
               done \in SUBSET (1..n)} : n \in 1..MaxSharedRows}

\* the positions of the current sub-batch of call c
RunSubBatch(c) == SubBatchPositions(runStart[c], runBatchSize, Len(runFetched[c]))

\* what process_batch can return for the sub-batch: one result per image,
\* in any order of completion, each with an outcome its image can have
ProcessBatchReturns(c) ==
    LET ps == RunSubBatch(c)
        n == Cardinality(ps)
    IN  {rs \in [1..n -> {OcrResult(IdStr(runFetched[c][p]), o) :
                             p \in ps, o \in OcrOutcomes}] :
            /\ \A a, b \in 1..n : a # b => rs[a].image_id # rs[b].image_id
            /\ \A a \in 1..n : \E p \in ps :
                  /\ rs[a].image_id = IdStr(runFetched[c][p])
                  /\ \E o \in OutcomesOfImage(sharedImages[runFetched[c][p]]) :
                        rs[a] = OcrResult(rs[a].image_id, o)}

InitRun ==
    /\ sharedImages \in SharedTables
    /\ runBatchSize \in {1, OCR_BATCH_SIZE}
    /\ runFetched = [c \in OcrCalls |-> <<>>]
    /\ runStart = [c \in OcrCalls |-> 0]
    /\ runResults = [c \in OcrCalls |-> <<>>]
    /\ runPersistPos = [c \in OcrCalls |-> 0]
    /\ runPc = [c \in OcrCalls |-> "called"]

IdleRun ==
    /\ sharedImages = <<>>
    /\ runBatchSize = 1
    /\ runFetched = <<>>
    /\ runStart = <<>>
    /\ runResults = <<>>
    /\ runPersistPos = <<>>
    /\ runPc = <<>>

\* with get_db(): pending_images = get_pending_ocr_images(db, document_id);
\* the early return when there is none; an exception returns the failure dict
RunFetch(c, ok) ==
    /\ runPc[c] = "called"
    /\ IF ~ok
       THEN /\ runPc' = [runPc EXCEPT ![c] = "returned"]
            /\ UNCHANGED runFetched
       ELSE \E fetched \in get_pending_ocr_images(sharedImages, DocumentId) :
              /\ runFetched' = [runFetched EXCEPT ![c] = fetched]
              /\ runPc' = [runPc EXCEPT ![c] =
                              IF fetched = <<>> THEN "returned" ELSE "in_batch"]
    /\ UNCHANGED <<sharedImages, runBatchSize, runStart, runResults, runPersistPos>>
    /\ UNCHANGED <<chunkVars, ocrVars, embVars, imgVars, searchVars, batchVars, docVars, ocrDocVars, routeVars, pdfRouteVars, insVars, readerVars, dbVars>>

\* batch_results = self.process_batch(batch), which touches no table;
\* get_db opens for the persistence loop
RunProcessBatch(c) ==
    /\ runPc[c] = "in_batch"
    /\ \E rs \in ProcessBatchReturns(c) :
          runResults' = [runResults EXCEPT ![c] = rs]
    /\ runPersistPos' = [runPersistPos EXCEPT ![c] = 1]
    /\ runPc' = [runPc EXCEPT ![c] = "persisting"]
    /\ UNCHANGED <<sharedImages, runBatchSize, runFetched, runStart>>
    /\ UNCHANGED <<chunkVars, ocrVars, embVars, imgVars, searchVars, batchVars, docVars, ocrDocVars, routeVars, pdfRouteVars, insVars, readerVars, dbVars>>

\* one update_image_ocr of the persistence loop (it commits); when it
\* raises, the except branch returns the failure dict
RunPersist(c, ok) ==
    /\ runPc[c] = "persisting"
    /\ runPersistPos[c] <= Len(runResults[c])
    /\ IF ok
       THEN LET result == runResults[c][runPersistPos[c]]
            IN  /\ sharedImages' =
                      update_image_ocr(sharedImages,
                                       ResultRowKey(result, runPersistPos[c]),
                                       result.text, result.confidence, result.status)
                /\ runPersistPos' = [runPersistPos EXCEPT ![c] = @ + 1]
                /\ UNCHANGED runPc
       ELSE /\ runPc' = [runPc EXCEPT ![c] = "returned"]
            /\ UNCHANGED <<sharedImages, runPersistPos>>
    /\ UNCHANGED <<runBatchSize, runFetched, runStart, runResults>>
    /\ UNCHANGED <<chunkVars, ocrVars, embVars, imgVars, searchVars, batchVars, docVars, ocrDocVars, routeVars, pdfRouteVars, insVars, readerVars, dbVars>>

\* the persistence block is left; the loop goes to the next sub-batch or
\* the summary is returned
RunBatchPersisted(c) ==
    /\ runPc[c] = "persisting"
    /\ runPersistPos[c] > Len(runResults[c])
    /\ IF runStart[c] + runBatchSize < Len(runFetched[c])
       THEN /\ runStart' = [runStart EXCEPT ![c] = @ + runBatchSize]
            /\ runResults' = [runResults EXCEPT ![c] = <<>>]
            /\ runPc' = [runPc EXCEPT ![c] = "in_batch"]
       ELSE /\ runPc' = [runPc EXCEPT ![c] = "returned"]
            /\ UNCHANGED <<runStart, runResults>>
    /\ UNCHANGED <<sharedImages, runBatchSize, runFetched, runPersistPos>>
    /\ UNCHANGED <<chunkVars, ocrVars, embVars, imgVars, searchVars, batchVars, docVars, ocrDocVars, routeVars, pdfRouteVars, insVars, readerVars, dbVars>>

NextRun ==
    \/ \E c \in OcrCalls, ok \in BOOLEAN : RunFetch(c, ok)
    \/ \E c \in OcrCalls : RunProcessBatch(c)
    \/ \E c \in OcrCalls, ok \in BOOLEAN : RunPersist(c, ok)
    \/ \E c \in OcrCalls : RunBatchPersisted(c)

(***************************************************************************)
(* Specifications                                                          *)
(***************************************************************************)
NextChunk == ChunkCall

InitChunkOnly ==
    /\ InitChunk
    /\ IdleOcr
    /\ IdleEmb
    /\ IdleImg
    /\ IdleSearch
    /\ IdleBatch
    /\ IdleDoc
    /\ IdleOcrDoc
    /\ IdleRoute
    /\ IdlePdfRoute
    /\ IdleIns
    /\ IdleReader
    /\ IdleDb
    /\ IdleRun

InitOcrOnly ==
    /\ IdleChunk
    /\ InitOcr
    /\ IdleEmb
    /\ IdleImg
    /\ IdleSearch
    /\ IdleBatch
    /\ IdleDoc
    /\ IdleOcrDoc
    /\ IdleRoute
    /\ IdlePdfRoute
    /\ IdleIns
    /\ IdleReader
    /\ IdleDb
    /\ IdleRun

InitEmbOnly ==
    /\ IdleChunk
    /\ IdleOcr
    /\ InitEmb
    /\ IdleImg
    /\ IdleSearch
    /\ IdleBatch
    /\ IdleDoc
    /\ IdleOcrDoc
    /\ IdleRoute
    /\ IdlePdfRoute
    /\ IdleIns
    /\ IdleReader
    /\ IdleDb
    /\ IdleRun

InitImgOnly ==
    /\ IdleChunk
    /\ IdleOcr
    /\ IdleEmb
    /\ InitImg
    /\ IdleSearch
    /\ IdleBatch
    /\ IdleDoc
    /\ IdleOcrDoc
    /\ IdleRoute
    /\ IdlePdfRoute
    /\ IdleIns
    /\ IdleReader
    /\ IdleDb
    /\ IdleRun

InitSearchOnly ==
    /\ IdleChunk
    /\ IdleOcr
    /\ IdleEmb
    /\ IdleImg
    /\ InitSearch
    /\ IdleBatch
    /\ IdleDoc
    /\ IdleOcrDoc
    /\ IdleRoute
    /\ IdlePdfRoute
    /\ IdleIns
    /\ IdleReader
    /\ IdleDb
    /\ IdleRun

InitBatchOnly ==
    /\ IdleChunk
    /\ IdleOcr
    /\ IdleEmb
    /\ IdleImg
    /\ IdleSearch
    /\ InitBatch
    /\ IdleDoc
    /\ IdleOcrDoc
    /\ IdleRoute
    /\ IdlePdfRoute
    /\ IdleIns
    /\ IdleReader
    /\ IdleDb
    /\ IdleRun

InitDocOnly ==
    /\ IdleChunk
    /\ IdleOcr
    /\ IdleEmb
    /\ IdleImg
    /\ IdleSearch
    /\ IdleBatch
    /\ InitDoc
    /\ IdleOcrDoc
    /\ IdleRoute
    /\ IdlePdfRoute
    /\ IdleIns
    /\ IdleReader
    /\ IdleDb
    /\ IdleRun

InitOcrDocOnly ==
    /\ IdleChunk
    /\ IdleOcr
    /\ IdleEmb
    /\ IdleImg
    /\ IdleSearch
    /\ IdleBatch
    /\ IdleDoc
    /\ InitOcrDoc
    /\ IdleRoute
    /\ IdlePdfRoute
    /\ IdleIns
    /\ IdleReader
    /\ IdleDb
    /\ IdleRun

InitRouteOnly ==
    /\ IdleChunk
    /\ IdleOcr
    /\ IdleEmb
    /\ IdleImg
    /\ IdleSearch
    /\ IdleBatch
    /\ IdleDoc
    /\ IdleOcrDoc
    /\ InitRoute
    /\ IdlePdfRoute
    /\ IdleIns
    /\ IdleReader
    /\ IdleDb
    /\ IdleRun

InitPdfRouteOnly ==
    /\ IdleChunk
    /\ IdleOcr
    /\ IdleEmb
    /\ IdleImg
    /\ IdleSearch
    /\ IdleBatch
    /\ InitDoc
    /\ IdleOcrDoc
    /\ IdleRoute
    /\ InitPdfRoute
    /\ IdleIns
    /\ IdleReader
    /\ IdleDb
    /\ IdleRun

InitInsOnly ==
    /\ IdleChunk
    /\ IdleOcr
    /\ IdleEmb
    /\ IdleImg
    /\ IdleSearch
    /\ IdleBatch
    /\ IdleDoc
    /\ IdleOcrDoc
    /\ IdleRoute
    /\ IdlePdfRoute
    /\ InitIns
    /\ IdleReader
    /\ IdleDb
    /\ IdleRun

InitReaderOnly ==
    /\ IdleChunk
    /\ IdleOcr
    /\ IdleEmb
    /\ IdleImg
    /\ IdleSearch
    /\ IdleBatch
    /\ IdleDoc
    /\ IdleOcrDoc
    /\ IdleRoute
    /\ IdlePdfRoute
    /\ IdleIns
    /\ InitReader
    /\ IdleDb
    /\ IdleRun

InitDbOnly ==
    /\ IdleChunk
    /\ IdleOcr
    /\ IdleEmb
    /\ IdleImg
    /\ IdleSearch
    /\ IdleBatch
    /\ IdleDoc
    /\ IdleOcrDoc
    /\ IdleRoute
    /\ IdlePdfRoute
    /\ IdleIns
    /\ IdleReader
    /\ InitDb
    /\ IdleRun

InitRunOnly ==
    /\ IdleChunk
    /\ IdleOcr
    /\ IdleEmb
    /\ IdleImg
    /\ IdleSearch
    /\ IdleBatch
    /\ IdleDoc
    /\ IdleOcrDoc
    /\ IdleRoute
    /\ IdlePdfRoute
    /\ IdleIns
    /\ IdleReader
    /\ IdleDb
    /\ InitRun

SpecChunk == InitChunkOnly /\ [][NextChunk]_vars

SpecOcr == InitOcrOnly /\ [][NextOcr]_vars

\* the steps of process_batch and of its pool threads, without the passing
\* of the timeout (which is no step of the program)
OcrProgress ==
    \/ BatchSubmit
    \/ \E i \in Units : WorkerStart(i)
    \/ \E i \in Units : \E o \in UnitOutcomes : UnitFinish(i, o)
    \/ \E i \in Units : Collect(i)
    \/ BatchReturn
    \/ BatchRaise

\* process_batch where every thread keeps being scheduled and every run of
\* process_image comes to its end
SpecOcrFair == InitOcrOnly /\ [][NextOcr]_vars /\ WF_vars(OcrProgress)

SpecEmbed == InitEmbOnly /\ [][NextEmb]_vars

SpecImg == InitImgOnly /\ [][NextImg]_vars

SpecSearch == InitSearchOnly /\ [][NextSearch]_vars

SpecBatch == InitBatchOnly /\ [][NextBatch]_vars

SpecDoc == InitDocOnly /\ [][NextDoc]_vars

SpecOcrDoc == InitOcrDocOnly /\ [][NextOcrDoc]_vars

\* one call of either document-level driver: process_document_images or
\* process_document_chunks
InitDriversOnly == InitOcrDocOnly \/ InitEmbOnly

NextDrivers == NextOcrDoc \/ NextEmb

SpecDrivers == InitDriversOnly /\ [][NextDrivers]_vars

\* the way of a chunk: chunk_text, process_document, process_document_chunks
InitChunkPathOnly == InitChunkOnly \/ InitDocOnly \/ InitEmbOnly

NextChunkPath == NextChunk \/ NextDoc \/ NextEmb

SpecChunkPath == InitChunkPathOnly /\ [][NextChunkPath]_vars

SpecRoutes == InitRouteOnly /\ [][NextRoute]_vars

SpecPdfRoutes == InitPdfRouteOnly /\ [][NextPdfRoutes]_vars

SpecInsertBatch == InitInsOnly /\ [][NextIns]_vars

SpecReader == InitReaderOnly /\ [][NextReader]_vars

SpecGetDb == InitDbOnly /\ [][NextDb]_vars

SpecOcrRuns == InitRunOnly /\ [][NextRun]_vars

(***************************************************************************)
(* Properties of chunk_text                                                *)
(***************************************************************************)
Words == SplitWords(text)

\* the words of chunk k as a reader of the returned strings sees them
ChunkWordsOf(k) == SplitWords(chunks[k])

DropFirst(s, n) == SubSeq(s, n + 1, Len(s))

RECURSIVE ConcatFrom(_, _)
\* chunk k.. with the first `overlap` words of each removed, concatenated
ConcatFrom(k, ov) ==
    IF k > Len(chunks) THEN <<>>
    ELSE DropFirst(ChunkWordsOf(k), ov) \o ConcatFrom(k + 1, ov)

Reconstructed ==
    IF chunks = <<>> THEN <<>> ELSE ChunkWordsOf(1) \o ConcatFrom(2, overlap)

\* the position one past the last word a window really holds
ActualEnd(w) == Min(w.end, Len(Words))

IsFullWindow(w) == w.end <= Len(Words)

LongInput == chunkPc = "done" /\ Len(Words) > chunk_size

\* the returned strings are the words of the recorded windows
WindowsMatchChunks ==
    /\ Len(windows) = Len(chunks)
    /\ \A k \in 1..Len(chunks) :
         ChunkWordsOf(k) = Slice(Words, windows[k].start, windows[k].end)

\* C9 (as claimed): for text with more than chunk_size words, removing the
\* first `overlap` words of every chunk after the first and concatenating
\* gives back the word sequence, and every chunk after the first starts
\* exactly `overlap` words before the end of the previous chunk, also when
\* the previous chunk is a short chunk at the end of the text.
C9_OverlapBeforePreviousEnd ==
    LongInput =>
        /\ WindowsMatchChunks
        /\ Reconstructed = Words
        /\ \A k \in 2..Len(windows) :
             windows[k].start = ActualEnd(windows[k - 1]) - overlap

\* C9 (amended): reconstruction holds as claimed; every chunk after the
\* first starts chunk_size - overlap words after the start of the previous
\* chunk, which is `overlap` words before the previous chunk's end whenever
\* the previous chunk is full-length (chunk_size words), and fewer than
\* `overlap` words before it after a short chunk.
C9_OverlapBeforeFullWindowEnd ==
    LongInput =>
        /\ WindowsMatchChunks
        /\ Reconstructed = Words
        /\ \A k \in 2..Len(windows) :
             /\ windows[k].start = windows[k - 1].start + chunk_size - overlap
             /\ IsFullWindow(windows[k - 1]) =>
                  windows[k].start = ActualEnd(windows[k - 1]) - overlap
             /\ ~IsFullWindow(windows[k - 1]) =>
                  windows[k].start > ActualEnd(windows[k - 1]) - overlap

\* a long text whose chunking has a chunk following a short chunk
C9_Witness ==
    /\ LongInput
    /\ overlap > 0
    /\ Reconstructed = Words
    /\ \E k \in 2..Len(windows) : ~IsFullWindow(windows[k - 1])

\* C10: for non-empty text with at most chunk_size whitespace tokens,
\* chunk_text returns exactly one chunk, equal to the input text.
C10_ShortTextIsOneChunk ==
    (chunkPc = "done" /\ text # <<>> /\ Len(Words) <= chunk_size)
        => chunks = <<text>>

\* a short text with irregular whitespace comes back verbatim
C10_Witness ==
    /\ chunkPc = "done"
    /\ Len(Words) = chunk_size
    /\ text # JoinWords(Words)
    /\ chunks = <<text>>

(***************************************************************************)
(* Properties of process_image / process_batch                             *)
(***************************************************************************)
ResultPositions == 1..Len(results)

CountInputs(id) == Cardinality({i \in Units : images[i] = id})
CountResults(id) == Cardinality({k \in ResultPositions : results[k].image_id = id})

\* C1: the list process_batch returns holds exactly one result per input
\* image (same length, same multiset of image ids, no future collected
\* twice), and every result has status 'completed' or 'failed', whatever
\* the outcomes of the units and the order they complete in.
C1_OneResultPerImage ==
    /\ \A k1, k2 \in ResultPositions :
         results[k1].unit = results[k2].unit => k1 = k2
    /\ \A k \in ResultPositions : results[k].status \in {"completed", "failed"}
    /\ ocrPc = "returned" =>
         /\ Len(results) = Len(images)
         /\ \A id \in ImageIds : CountResults(id) = CountInputs(id)

\* a returned batch of two entries with the same id, collected out of input
\* order, one completed and one failed
C1_Witness ==
    /\ ocrPc = "returned"
    /\ Len(images) = 2
    /\ images[1] = images[2]
    /\ results[1].unit = 2
    /\ results[1].status = "failed"
    /\ results[2].status = "completed"

\* C2 (as claimed): an image reaches status 'failed' only after a fallback
\* engine has been attempted, and no engine is attempted more than once
\* per image.
C2_FailedOnlyAfterFallback ==
    \A i \in Units :
        /\ (unit[i].st \in {"done", "collected"} /\ unit[i].outcome = "failed")
             => \E k \in 1..Len(unit[i].attempts) :
                    unit[i].attempts[k] \in FallbackEngines
        /\ \A k1, k2 \in 1..Len(unit[i].attempts) :
             unit[i].attempts[k1] = unit[i].attempts[k2] => k1 = k2

\* C3 (as claimed): a unit that ran longer than the per-item timeout is
\* recorded with status 'failed' and the timeout as its error.
C3_OverrunRecordedAsTimeout ==
    \A k \in ResultPositions :
        unit[results[k].unit].overtime =>
            /\ results[k].status = "failed"
            /\ results[k].error = "timeout"

\* C20: the failure of one unit of process_batch, an entry that lacks an id
\* or a path included, becomes a result of status 'failed' for that unit
\* and no exception leaves process_batch.
C20_UnitFailureNeverPropagates ==
    /\ ocrPc \notin {"unwinding", "raised"}
    /\ ocrPc = "returned" =>
          \A i \in 1..Len(images) :
              \E k \in ResultPositions :
                  /\ results[k].unit = i
                  /\ (images[i] = NoKey \/ unit[i].outcome \in {"failed", "escaped"})
                        => results[k].status = "failed"

(***************************************************************************)
(* Properties of process_document_chunks                                   *)
(***************************************************************************)
\* the visible rows the current call has written
EmbVisible == {r \in embRows : r.call = embCall}

\* one row per chunk of the current call
EmbExpected == {EmbeddingRow(embCall, embChunks, i) : i \in 1..Len(embChunks)}

\* C4: process_document_chunks persists all-or-nothing. In every state the
\* visible rows of the call are none or exactly one per input chunk; when
\* the call has returned, success is false and no row is visible if
\* generation, an insert or the commit failed, and otherwise success is
\* true and one row per chunk is visible.
C4_EmbeddingsAllOrNothing ==
    /\ EmbVisible = {} \/ EmbVisible = EmbExpected
    /\ embPc = "returned" =>
         /\ embFault => (~embResult.success /\ EmbVisible = {})
         /\ ~embFault => (embResult.success /\ EmbVisible = EmbExpected)

\* a second call failed after inserting a row, while the rows of the first
\* call are visible
C4_Witness ==
    /\ embPc = "returned"
    /\ embCall = 2
    /\ Len(embChunks) = 2
    /\ embFault
    /\ EmbVisible = {}
    /\ \E r \in embRows : r.call = 1 /\ r.pos = 2

(***************************************************************************)
(* Properties of extract_all_images                                        *)
(***************************************************************************)
RowsOfRun(n) == {r \in imageRows : r.run = n}

EmbeddedRows == {r \in imageRows : r.kind = "embedded"}

RowKey(r) == <<r.document_id, r.page_number, r.image_index>>

HashesSeen == {ContentHash(c) : c \in Contents}

EmittedWithHash(h) ==
    {k \in 1..Len(embedded_images) : embedded_images[k].hash = h}

\* C5 (as claimed): the Image rows of one run are committed as one unit, so
\* after a stage-level failure part-way through the run no row of that run
\* is visible.
C5_FailedRunLeavesNoRows ==
    imgPc = "failed" => RowsOfRun(imgRun) = {}

\* C6 (as claimed): after any sequence of extract_all_images calls, repeated
\* calls for the same document and file included, no two persisted rows
\* share (document_id, page_number, image_index); page renders have
\* image_index 0 and embedded images image_index >= 1.
C6_KeyUniqueAcrossRuns ==
    /\ \A r1, r2 \in imageRows : RowKey(r1) = RowKey(r2) => r1 = r2
    /\ \A r \in imageRows :
         IF r.kind = "page_render" THEN r.image_index = 0 ELSE r.image_index >= 1

\* C6 (amended): no two rows persisted by the same extract_all_images call
\* share (document_id, page_number, image_index); after any sequence of
\* calls every page render has image_index 0 and every embedded image
\* image_index >= 1. A repeated call for the same document and file
\* persists the same keys again.
C6_KeyUniqueWithinRun ==
    /\ \A r1, r2 \in imageRows :
         (r1.run = r2.run /\ RowKey(r1) = RowKey(r2)) => r1 = r2
    /\ \A r \in imageRows :
         IF r.kind = "page_render" THEN r.image_index = 0 ELSE r.image_index >= 1

\* one run has persisted a page render and two embedded images of one page
C6_Witness ==
    \E r0, r1, r2 \in RowsOfRun(imgRun) :
        /\ r0.page_number = r1.page_number
        /\ r1.page_number = r2.page_number
        /\ r0.image_index = 0
        /\ r1.image_index = 1
        /\ r2.image_index = 2

\* C7: within one extract_all_images run, for every content hash at most
\* one embedded-image descriptor is emitted and at most one Image row is
\* persisted, however many pages or positions hold the same image bytes.
C7_OnePerHashInRun ==
    \A h \in HashesSeen :
        /\ Cardinality(EmittedWithHash(h)) <= 1
        /\ Cardinality({r \in RowsOfRun(imgRun) : r.hash = h}) <= 1

\* the run has scanned a document where the same large image is on both
\* pages and twice on one of them, and emitted it once
C7_Witness ==
    /\ imgPc = "returned"
    /\ NPages = 2
    /\ pdf[1].imgs = <<"A", "A">>
    /\ pdf[2].imgs = <<"A", "B">>
    /\ Cardinality(EmittedWithHash(ContentHash("A"))) = 1
    /\ Cardinality(EmittedWithHash(ContentHash("B"))) = 1

\* C8 (as claimed): for any sequence of extraction runs on a document, no
\* two persisted Image rows of the document share a content hash.
C8_HashUniqueAcrossRuns ==
    \A r1, r2 \in EmbeddedRows :
        (r1.document_id = r2.document_id /\ r1.hash = r2.hash) => r1 = r2

\* C8 (amended): two persisted Image rows of the same document that share
\* a content hash were written by different extraction runs; the rows of
\* one run have pairwise different content hashes.
C8_HashSharedOnlyAcrossRuns ==
    \A r1, r2 \in EmbeddedRows :
        (r1.document_id = r2.document_id /\ r1.hash = r2.hash /\ r1 # r2)
            => r1.run # r2.run

\* the second run over a document with a repeated image has persisted that
\* image again
C8_Witness ==
    /\ imgRun = 2
    /\ \E p \in 1..NPages : pdf[p].imgs = <<"A", "A">>
    /\ \E r1, r2 \in EmbeddedRows :
         r1.run = 1 /\ r2.run = 2 /\ r1.hash = r2.hash

(***************************************************************************)
(* Properties of the render loop and of the returned list                  *)
(***************************************************************************)
PageRendersOf(found, p) ==
    {k \in 1..Len(found) : found[k].type = "page_render" /\ found[k].page_number = p}

EmbeddedOf(found) == {k \in 1..Len(found) : found[k].type = "embedded"}

\* the step is a render of the STEP 1 loop that failed
RenderFailureStep ==
    /\ imgPc = "render"
    /\ Len(renderLog') = Len(renderLog) + 1
    /\ renderLog'[Len(renderLog')] = "failed"

\* C16: a failed render of a low-text page does not end the run: the loop
\* goes on with the next page or with the embedded-image extraction; and in
\* the list a run returns every page whose render succeeded has its
\* page_render descriptor, a page whose render failed has none, and the
\* embedded-image extraction has gone through every page.
C16_RenderFailureDoesNotAbort ==
    [][/\ RenderFailureStep =>
             /\ imgPc' \in {"render", "scan"}
             /\ all_images' = all_images
             /\ renderPage' = renderPage + 1
       /\ imgPc' = "returned" =>
             /\ Len(renderLog') = NPages
             /\ \A p \in 1..NPages :
                   /\ renderLog'[p] = "rendered"
                         => Cardinality(PageRendersOf(all_images', p)) = 1
                   /\ renderLog'[p] = "failed" => PageRendersOf(all_images', p) = {}
             /\ scanPage' > NPages
             /\ \A k \in 1..Len(embedded_images') :
                   \E j \in 1..Len(all_images') : all_images'[j] = embedded_images'[k]
      ]_vars

\* a run has returned in which the render of one page failed, the render of
\* a later page succeeded and an embedded image was extracted
C16_Witness ==
    /\ imgPc = "returned"
    /\ \E p, q \in 1..Len(renderLog) :
          /\ p < q
          /\ renderLog[p] = "failed"
          /\ renderLog[q] = "rendered"
          /\ PageRendersOf(all_images, q) # {}
    /\ EmbeddedOf(all_images) # {}

\* C17: no image narrower or lower than 100 pixels is in the lists a run
\* builds or in a persisted row, whatever its kind (page render or embedded
\* image).
C17_NoSmallImageKept ==
    /\ \A k \in 1..Len(all_images) :
          all_images[k].width >= 100 /\ all_images[k].height >= 100
    /\ \A k \in 1..Len(embedded_images) :
          embedded_images[k].width >= 100 /\ embedded_images[k].height >= 100
    /\ \A r \in imageRows : r.width >= 100 /\ r.height >= 100

\* the word count the render loop is to use for a page: the entry of the
\* map, 0 for a page the map does not list
CountedWords(p) == IF pdf[p].listed THEN pdf[p].words ELSE 0

\* C18: the loop attempts a full-page render of page p exactly if its word
\* count is strictly below 50, a page without entry in the map counting as
\* 0 words; a page of 50 or more words never has a page_render descriptor.
C18_RenderIffBelowThreshold ==
    /\ Len(renderLog) <= NPages
    /\ \A p \in 1..Len(renderLog) :
          renderLog[p] \in {"rendered", "failed"} <=> CountedWords(p) < 50
    /\ \A k \in 1..Len(all_images) :
          all_images[k].type = "page_render"
              => CountedWords(all_images[k].page_number) < 50

\* a run has rendered a page the map does not list and passed over a page
\* of exactly 50 words
C18_Witness ==
    /\ imgPc = "returned"
    /\ \E p, q \in 1..Len(renderLog) :
          /\ ~pdf[p].listed
          /\ renderLog[p] = "rendered"
          /\ pdf[q].listed
          /\ pdf[q].words = 50
          /\ renderLog[q] = "skipped"

\* the place of a descriptor in the returned order
Precedes(a, b) ==
    \/ a.type = "page_render" /\ b.type = "embedded"
    \/ /\ a.type = b.type
       /\ \/ a.page_number < b.page_number
          \/ a.page_number = b.page_number /\ a.image_index < b.image_index

\* C19: the returned list is the page_render descriptors in strictly
\* ascending page number followed by the embedded-image descriptors (in
\* page and index order): the place of every descriptor is fixed by its
\* kind, page and index alone, so the order is the same in every execution.
C19_RendersAscendingThenEmbedded ==
    imgPc = "returned" =>
        \A i, j \in 1..Len(all_images) : i < j => Precedes(all_images[i], all_images[j])

\* a run has returned two page renders and an embedded image
C19_Witness ==
    /\ imgPc = "returned"
    /\ Len(all_images) >= 3
    /\ all_images[1].type = "page_render"
    /\ all_images[2].type = "page_render"
    /\ all_images[Len(all_images)].type = "embedded"

(***************************************************************************)
(* Properties of search_similar                                            *)
(***************************************************************************)
\* position in the input of the candidate a result was made from
InputPosition(r) == r.id

\* the largest number of entries a call with this k may return: a list
\* cannot have fewer than zero entries
MaxEntries(k, n) == IF Min(k, n) < 0 THEN 0 ELSE Min(k, n)

\* C11: a returned list is in descending similarity score, candidates of
\* equal score keep their input order, every entry is one of the input
\* candidates, and the list has at most min(k, len(candidates)) entries
\* (none when k is zero or negative), for every k.
C11_SearchContract ==
    searchPc = "returned" =>
        /\ \A i, j \in 1..Len(searchResults) :
              i < j =>
                /\ searchResults[i].similarity_score >= searchResults[j].similarity_score
                /\ searchResults[i].similarity_score = searchResults[j].similarity_score
                      => InputPosition(searchResults[i]) < InputPosition(searchResults[j])
        /\ \A i \in 1..Len(searchResults) :
              /\ InputPosition(searchResults[i]) \in 1..Len(embeddings_list)
              /\ embeddings_list[InputPosition(searchResults[i])].embedding
                    = searchResults[i].embedding
        /\ Len(searchResults) <= MaxEntries(top_k, Len(embeddings_list))

(***************************************************************************)
(* Properties of generate_batch_embeddings                                 *)
(***************************************************************************)
\* C12: no empty or whitespace-only string is ever handed to the embedding
\* backend (each is replaced by a placeholder first), and a returned list
\* still has one vector for the position of such an input.
C12_NoBlankTextSent ==
    /\ \A i \in 1..Len(backendSent) : ~IsBlankText(backendSent[i])
    /\ batchPc = "returned" => Len(batchResult) = Len(batchTexts)

\* C13: a call that returns, returns exactly len(texts) vectors and vector i
\* is the embedding of texts[i], whatever the sub-batch boundaries; a call
\* that fails raises and returns no list, so no partial list is ever
\* returned.
C13_BatchAllOrNothing ==
    /\ batchPc = "returned" =>
          /\ Len(batchResult) = Len(batchTexts)
          /\ \A i \in 1..Len(batchTexts) : batchResult[i] = ModelEncode(batchTexts[i])
    /\ batchPc # "returned" => batchResult = <<>>

\* a call over more than one sub-batch with different texts has returned
C13_Witness ==
    /\ batchPc = "returned"
    /\ Len(batchTexts) > batch_size
    /\ batch_size > 1
    /\ batchTexts[1] # batchTexts[Len(batchTexts)]
    /\ batchResult[1] # batchResult[Len(batchResult)]

(***************************************************************************)
(* Properties of process_document and extract_text                         *)
(***************************************************************************)
\* the failures the try block can meet
StepErrors == {"status_update_error", "metadata_error", "read_error", "page_limit",
               "counts_update_error"}

\* the failing steps the claim names
NamedStepErrors == {"metadata_error", "read_error", "page_limit", "counts_update_error"}

\* C14 as stated: whenever process_document has failed at the metadata read,
\* the text extraction, the page limit or the count update, the row's status
\* is 'failed' with the error message recorded and an exception has left
\* the call; a call that returned leaves a status other than 'failed'.
C14_FailureAlwaysRecorded ==
    /\ (docPc = "raised" /\ docError \in NamedStepErrors) =>
          /\ docRaised # "none"
          /\ docRow.status = "failed"
          /\ docRow.processing_error = docError
    /\ docPc = "returned" => docRow.status # "failed"

\* C14: whenever process_document has failed, an exception has left the
\* call; if it is the exception of the failed step, the row's status is
\* 'failed' with that error recorded; otherwise it is the exception of the
\* failed-status update and the row is as the last successful write left
\* it. A call that returned leaves a status other than 'failed'.
C14_FailureRecordedUnlessUpdateFails ==
    /\ docPc = "raised" =>
          /\ docRaised # "none"
          /\ docError \in StepErrors
          /\ docRaised = docError =>
                /\ docRow.status = "failed"
                /\ docRow.processing_error = docError
          /\ docRaised # docError =>
                /\ docRaised = "failed_status_update_error"
                /\ docRow.processing_error # docError
    /\ docPc = "returned" =>
          /\ docRow.status = "processing"
          /\ docRaised = "none"

\* a count update failed after an earlier failed run and was recorded
C14_Witness ==
    /\ docPc = "raised"
    /\ docError = "counts_update_error"
    /\ docRow.status = "failed"
    /\ docRow.processing_error = "counts_update_error"
    /\ Len(docPages) > 0

\* C15: extract_text fails with the page-limit error exactly when the page
\* count of a readable document is strictly greater than the ceiling (a
\* document of exactly the ceiling is accepted), and the failure returns no
\* pages and no word counts.
C15_PageLimitExactlyAboveCeiling ==
    extractOutcome.error \notin {"not_called", "read_error"} =>
        /\ extractOutcome.error = "page_limit" <=> Len(docPages) > max_pages
        /\ extractOutcome.error = "none" <=> Len(docPages) <= max_pages
        /\ extractOutcome.error = "page_limit" =>
              /\ extractOutcome.pages_data = <<>>
              /\ extractOutcome.word_counts = <<>>
        /\ extractOutcome.error = "none" =>
              /\ Len(extractOutcome.pages_data) = Len(docPages)
              /\ Len(extractOutcome.word_counts) = Len(docPages)

\* a document of exactly the ceiling was accepted
C15_Witness ==
    /\ extractOutcome.error = "none"
    /\ Len(docPages) = max_pages
    /\ Len(extractOutcome.pages_data) = max_pages

(***************************************************************************)
(* Properties of the worker pool of process_batch                          *)
(***************************************************************************)

\* C21: at every instant of process_batch the number of units running
\* process_image is at most the configured worker count, whatever the
\* size of the batch.
C21_RunningUnitsWithinWorkers ==
    Cardinality(RunningUnits) <= workers

\* a batch larger than the pool: every worker is busy and a unit waits
C21_Witness ==
    /\ Len(images) > workers
    /\ Cardinality(RunningUnits) = workers
    /\ QueuedUnits # {}

(***************************************************************************)
(* Properties of process_document_images                                   *)
(***************************************************************************)

\* the sub-batch a position of pending_images belongs to
SubBatchOf(p) == (p - 1) \div ocr_batch_size

UnitStarted(p) == ocrUnits[p] \in {"running", "done"}

\* the row of the image at position p carries what its result says
ResultPersisted(p) ==
    \E k \in 1..Len(all_results) :
        /\ all_results[k].image_id = IdStr(pending_images[p])
        /\ document_images[pending_images[p]].ocr_status = all_results[k].status
        /\ document_images[pending_images[p]].ocr_text = all_results[k].text
        /\ document_images[pending_images[p]].ocr_confidence = all_results[k].confidence

\* the images handed to process_batch whose results are not yet persisted
UnitsInFlight ==
    {p \in DOMAIN ocrUnits : ocrUnits[p] # "waiting" /\ ~ResultPersisted(p)}

\* C22: process_document_images takes the pending images in
\* (page_number, image_index) order, in sub-batches of at most batch_size,
\* and no unit of a sub-batch starts before the result of every image of
\* the sub-batches before it has been persisted.
C22_SubBatchesInOrderBehindBarrier ==
    /\ \A a, b \in DOMAIN pending_images :
          a < b => KeyLeq(OrderKey(document_images, pending_images[a]),
                          OrderKey(document_images, pending_images[b]))
    /\ \A p, q \in DOMAIN ocrUnits :
          (p < q /\ ocrUnits[q] # "waiting") => ocrUnits[p] # "waiting"
    /\ Cardinality(UnitsInFlight) <= ocr_batch_size
    /\ \A p, q \in DOMAIN ocrUnits :
          (SubBatchOf(q) < SubBatchOf(p) /\ UnitStarted(p)) => ResultPersisted(q)

\* three pending images fetched against table order, sub-batches of two:
\* the unit of the second sub-batch runs after the first was persisted
C22_Witness ==
    /\ ocrDocPc = "in_batch"
    /\ ocr_batch_size = 2
    /\ Len(pending_images) = 3
    /\ pending_images[1] > pending_images[2]
    /\ ocrUnits[3] = "running"
    /\ ResultPersisted(1) /\ ResultPersisted(2)

\* the columns of a document_images row that OCR persistence does not own
OtherImageFields(row) ==
    <<row.document_id, row.page_number, row.image_index, row.storage_path>>

\* the result dict the persistence loop is about to write
ResultBeingPersisted == batch_results[persistPos]

\* C29: OCR persistence changes only ocr_status, ocr_text and
\* ocr_confidence of the document_images row whose id is the result's image
\* id; every other field of that row, every other row of the table and all
\* document and embedding rows stay as they were.
C29_PersistenceFrame ==
    [][/\ DOMAIN document_images' = DOMAIN document_images
       /\ \A id \in DOMAIN document_images :
             /\ OtherImageFields(document_images'[id]) =
                   OtherImageFields(document_images[id])
             /\ document_images'[id] # document_images[id] =>
                   /\ ocrDocPc = "persisting"
                   /\ persistPos \in 1..Len(batch_results)
                   /\ ResultBeingPersisted.image_id = IdStr(id)
                   /\ document_images'[id].ocr_status = ResultBeingPersisted.status
                   /\ document_images'[id].ocr_text = ResultBeingPersisted.text
                   /\ document_images'[id].ocr_confidence =
                         ResultBeingPersisted.confidence
       /\ docRow' = docRow
       /\ embRows' = embRows
       /\ imageRows' = imageRows]_vars

\* a result was written into a table that also holds a pending row of
\* another document and a row completed by an earlier run
C29_Witness ==
    /\ ocrDocPc = "persisting"
    /\ persistPos = 2
    /\ Len(document_images) = 3
    /\ \E id \in DOMAIN document_images :
          /\ document_images[id].document_id = OtherDocumentId
          /\ document_images[id].ocr_status = "pending"
    /\ \E id \in DOMAIN document_images : document_images[id].ocr_text = "old"
    /\ \E id \in DOMAIN document_images :
          /\ document_images[id].ocr_text = "ab cd"
          /\ document_images[id].ocr_status = "completed"

\* positions of all_results whose status is 'completed'
CompletedPositions ==
    {k \in 1..Len(all_results) : all_results[k].status = "completed"}

RECURSIVE SumAt(_, _, _)
\* the sum of field f of rs over the positions in S
SumAt(rs, f, S) ==
    IF S = {} THEN 0
    ELSE LET k == CHOOSE x \in S : TRUE
         IN  rs[k][f] + SumAt(rs, f, S \ {k})

SummaryFields ==
    {"images_processed", "images_successful", "images_failed", "total_words",
     "average_confidence"}

\* the equations of the summary, for a summary that has the five fields
SummaryEquations ==
    /\ ocrDocResult.images_processed = Len(pending_images)
    /\ ocrDocResult.images_processed =
          ocrDocResult.images_successful + ocrDocResult.images_failed
    /\ ocrDocResult.images_successful = Cardinality(CompletedPositions)
    /\ ocrDocResult.total_words =
          SumAt(all_results, "word_count", 1..Len(all_results))
    /\ IF CompletedPositions = {}
       THEN ocrDocResult.average_confidence = 0
       ELSE LET n == Cardinality(CompletedPositions)
                total == SumAt(all_results, "confidence", CompletedPositions)
                d == n * ocrDocResult.average_confidence - total
            IN  2 * d <= n /\ 2 * (0 - d) <= n

\* C30 (as claimed): a successful summary of process_document_images has
\* processed equal to the number of images pending at the start and to
\* successful + failed, total_words equal to the sum of the word counts of
\* all results, and average_confidence equal to the mean confidence of the
\* completed results (to the hundredth), 0 when none completed.
C30_SummaryOfSuccess ==
    (ocrDocPc = "returned" /\ ocrDocResult.success) =>
        /\ SummaryFields \subseteq DOMAIN ocrDocResult
        /\ SummaryEquations

\* the same equations whenever the summary carries the five fields
C30_SummaryWhenImagesPending ==
    (ocrDocPc = "returned" /\ ocrDocResult.success /\ pending_images # <<>>) =>
        /\ SummaryFields \subseteq DOMAIN ocrDocResult
        /\ SummaryEquations

(***************************************************************************)
(* Properties of the document-level drivers                                *)
(***************************************************************************)

\* a returned dict reports a failure: success false and a non-empty error
ReportsFailure(result) ==
    /\ ~result.success
    /\ "error" \in DOMAIN result
    /\ result.error # ""

\* a returned dict reports success and carries no error
ReportsSuccess(result) ==
    /\ result.success
    /\ "error" \notin DOMAIN result

\* C26: every failure of a step of process_document_images or of
\* process_document_chunks leaves the call as a returned dict with
\* success false and a non-empty error, never as an exception, and a dict
\* with success true carries no error.
C26_DriverFailuresAreReturned ==
    /\ ocrDocFault # "none" => ocrDocPc = "returned"
    /\ ocrDocPc = "returned" =>
          IF ocrDocFault # "none"
          THEN ReportsFailure(ocrDocResult) /\ ocrDocResult.error = ocrDocFault
          ELSE ReportsSuccess(ocrDocResult)
    /\ embFault => embPc = "returned"
    /\ embPc = "returned" =>
          IF embFault THEN ReportsFailure(embResult) ELSE ReportsSuccess(embResult)

\* the second update_image_ocr of a sub-batch failed after the first was
\* committed
C26_Witness ==
    /\ ocrDocPc = "returned"
    /\ ocrDocFault = "update_error"
    /\ persistPos = 2
    /\ ResultPersisted(1)
    /\ ~ocrDocResult.success

(***************************************************************************)
(* Properties of the batch routes                                          *)
(***************************************************************************)

\* C23 (as claimed): a request to the OCR batch route with more images
\* than the ceiling, or with none, is answered as a validation error
\* (status 400, not the 500 of an internal failure) and process_batch is
\* not called.
C23_OversizedOcrBatchIsValidationError ==
    (/\ routePc = "responded"
     /\ routeEntry = OcrBatchRoute
     /\ (requestLen > OcrBatchCeiling \/ requestLen = 0))
        => (routeStatus = 400 /\ serviceCalls = 0)

\* the part of C23 the route keeps: process_batch is not called
C23_OversizedOcrBatchNotProcessed ==
    (/\ routeEntry = OcrBatchRoute
     /\ (requestLen > OcrBatchCeiling \/ requestLen = 0))
        => (serviceCalls = 0 /\ routeStatus # 200)

\* C24 (as claimed): on every route that exposes batch embedding, a
\* request with more than 500 texts is answered as a validation error and
\* generate_batch_embeddings is not called.
C24_OversizedEmbedBatchRejectedEverywhere ==
    (/\ routePc = "responded"
     /\ routeEntry \in EmbedRoutes
     /\ requestLen > EmbedBatchCeiling)
        => (routeStatus = 400 /\ serviceCalls = 0)

\* the route that has the check rejects as claimed
C24_GenerateRouteRejectsOversized ==
    (/\ routePc = "responded"
     /\ routeEntry = "embeddings/generate"
     /\ requestLen > EmbedBatchCeiling)
        => (routeStatus = 400 /\ serviceCalls = 0)

(***************************************************************************)
(* Properties of the pdf routes                                            *)
(***************************************************************************)

\* C25 (as claimed): when a stage of the image path fails as a whole
\* (extract_all_images cannot open the document, or raises later), the
\* document row is marked 'failed' with the captured error message.
C25_ImageStageFailureMarksDocumentFailed ==
    (pdfRoutePc = "responded" /\ pdfImagesError # "none") =>
        /\ docRow.status = "failed"
        /\ docRow.processing_error = pdfImagesError

\* what the route does on such a failure: it answers 500 and the document
\* row stays as process_document left it
C25_ImageStageFailureLeavesDocumentRow ==
    (pdfRoutePc = "responded" /\ pdfImagesError # "none") =>
        /\ pdfResponse = 500
        /\ docRow.status = "processing"

(***************************************************************************)
(* Properties of insert_document_images_batch                              *)
(***************************************************************************)

\* the committed rows that the running call inserted
BatchRowsVisible == {r \in insRows : r \notin UNION EarlierImageRows}

\* C27: insert_document_images_batch returns one id per input image, the
\* i-th id being the id of the row inserted for images[i]; the batch is
\* atomic: no row of it is visible before the call has returned, and when
\* an insert or the commit fails no row is visible and no ids are
\* returned; an empty input returns the empty list and writes nothing.
C27_BatchInsertAlignedAndAtomic ==
    /\ insPc # "returned" => (BatchRowsVisible = {} /\ insReturn = NotReturned)
    /\ insPc = "returned" =>
          /\ Len(insReturn) = Len(insImages)
          /\ Cardinality(BatchRowsVisible) = Len(insImages)
          /\ \A i, j \in 1..Len(insReturn) :
                i # j => insReturn[i] # insReturn[j]
          /\ \A i \in 1..Len(insReturn) :
                \E r \in BatchRowsVisible :
                    /\ r.id = insReturn[i]
                    /\ r.page_number = insImages[i].page_number
                    /\ r.image_index = insImages[i].image_index
    /\ (insPc = "returned" /\ insImages = <<>>) =>
          (insReturn = <<>> /\ insSession = <<>>)

\* the third insert of a batch failed after two rows had been inserted in
\* the transaction
C27_Witness ==
    /\ insPc = "raised"
    /\ Len(insImages) = 3
    /\ Len(insIds) = 2
    /\ insRows # {}
    /\ BatchRowsVisible = {}

\* a returned batch that holds the same image dict twice
C27_WitnessReturned ==
    /\ insPc = "returned"
    /\ Len(insImages) = 2
    /\ insImages[1] = insImages[2]
    /\ insRows # {}

(***************************************************************************)
(* Properties of the chunk dicts and the embedding rows made from them     *)
(***************************************************************************)

\* docChunks is in page order, and within a page chunk_index counts from 0
ChunksNumberedInOrder(cs) ==
    \A k \in 1..Len(cs) :
        IF k = 1 \/ cs[k - 1].page_number # cs[k].page_number
        THEN /\ cs[k].chunk_index = 0
             /\ k > 1 => cs[k - 1].page_number < cs[k].page_number
        ELSE cs[k].chunk_index = cs[k - 1].chunk_index + 1

\* the rows of the current call of process_document_chunks
RowsOfCall == {r \in embRows : r.call = embCall}

\* C28: the chunks of process_document are ordered by (page_number,
\* chunk_index), chunk_index counts 0, 1, 2, ... within each page, and a
\* page without words gives no chunk; process_document_chunks persists for
\* the chunk at every position i one row with that chunk's page_number,
\* chunk_index and text and with the i-th returned vector, in input order.
C28_ChunksOrderedRowsAligned ==
    /\ docPc \in {"counts", "returned"} =>
          /\ ChunksNumberedInOrder(docChunks)
          /\ \A k \in 1..Len(docChunks) :
                WordCount(docPages[docChunks[k].page_number]) > 0
          /\ \A p \in 1..Len(docPages) :
                WordCount(docPages[p]) > 0 =>
                    \E k \in 1..Len(docChunks) : docChunks[k].page_number = p
    /\ chunkPc = "done" =>
          /\ ChunksNumberedInOrder(EnumerateChunks(chunks, 1))
          /\ \A k \in 1..Len(chunks) :
                EnumerateChunks(chunks, 1)[k].content = chunks[k]
    /\ (embPc = "returned" /\ embResult.success) =>
          /\ Cardinality(RowsOfCall) = Len(embChunks)
          /\ \A i \in 1..Len(embChunks) :
                \E r \in RowsOfCall :
                    /\ r.pos = i
                    /\ r.page_number = embChunks[i].page_number
                    /\ r.chunk_index = embChunks[i].chunk_index
                    /\ r.text = embChunks[i].text
                    /\ r.embedding = Embeddings(embChunks)[i]

\* two pages, the first of whitespace only: one chunk, of page 2
C28_Witness ==
    /\ docPc = "returned"
    /\ Len(docPages) = 2
    /\ docPages[1] = <<" ">>
    /\ Len(docChunks) = 1
    /\ docChunks[1].page_number = 2
    /\ docChunks[1].chunk_index = 0

\* two pages with words: a chunk of each, in page order
C28_WitnessTwoPages ==
    /\ docPc = "returned"
    /\ Len(docChunks) = 2
    /\ docChunks[1].page_number = 1
    /\ docChunks[2].page_number = 2

\* two chunks passed against their chunk_index order, both persisted
C28_WitnessRows ==
    /\ embPc = "returned"
    /\ embResult.success
    /\ Len(embChunks) = 2
    /\ embChunks[1].chunk_index = 1
    /\ embChunks[2].chunk_index = 0
    /\ Cardinality(RowsOfCall) = 2

\* a text that chunk_text cut into three chunks
C28_WitnessChunks ==
    /\ chunkPc = "done"
    /\ Len(chunks) = 3

(***************************************************************************)
(* Properties of the image path against the documents row                  *)
(***************************************************************************)

\* C31: a request to /pdf/extract-images does not run the text-extraction
\* pipeline and leaves the document's status and page_count as they were:
\* no step taken while the request is served changes either field.
C31_ImageExtractionLeavesDocumentRow ==
    [][pdfRoute = "pdf/extract-images"
         => /\ docRow'.status = docRow.status
            /\ docRow'.page_count = docRow.page_count
            /\ docChunks' = docChunks]_vars

\* what does hold: once process_document has returned, the rest of
\* extract_images (extract_all_images and the response) leaves the row alone
C31_ImageStepsLeaveDocumentRow ==
    [][(pdfRoute = "pdf/extract-images" /\ docPc = "returned")
         => docRow' = docRow]_vars

(***************************************************************************)
(* Properties of process_batch as a barrier                                *)
(***************************************************************************)

\* process_batch has returned its list or an exception has left it
BatchEnded == ocrPc \in {"returned", "raised"}

\* no pool thread holds or awaits a task of the batch
NoUnitInFlight == \A i \in Units : unit[i].st \in {"done", "collected"}

\* C32: process_batch is a fan-in barrier. Whenever it has returned, every
\* submitted unit has finished and its result has been collected, and after
\* it has returned or raised no unit of the batch is queued or running; and
\* when every unit comes to its end, process_batch ends.
C32_BatchIsFanInBarrier ==
    /\ [](ocrPc = "returned"
            => /\ \A i \in Units : unit[i].st = "collected"
               /\ Len(results) = Len(images))
    /\ [](BatchEnded => NoUnitInFlight)
    /\ <>BatchEnded

\* a batch of two images has returned though one unit ran past the timeout
C32_Witness ==
    /\ ocrPc = "returned"
    /\ Len(images) = 2
    /\ \E i \in Units : unit[i].overtime
    /\ Len(results) = 2

(***************************************************************************)
(* Properties of the OCR result writer                                     *)
(***************************************************************************)

\* the number of results of all_results that update_image_ocr has written
PersistedCount ==
    IF ocrDocPc = "in_batch" THEN Len(all_results)
    ELSE IF ocrDocPc \in {"persisting", "returned"} /\ persistPos > 0
    THEN Len(all_results) - Len(batch_results) + persistPos - 1
    ELSE 0

\* the OCR columns of a row
OcrFields(row) == <<row.ocr_status, row.ocr_text, row.ocr_confidence>>

\* the OCR columns a result dict asks for
ResultFields(result) == <<result.status, result.text, result.confidence>>

\* what process_image can return for the file of row id
OwnResults(id) ==
    {OcrResult(IdStr(id), o) : o \in OutcomesOfImage(document_images[id])}

\* C33: in whatever order the units of a sub-batch complete, the status,
\* text and confidence persisted on an image row are those of the result
\* computed from that row's own file: every written result went to the row
\* named by its image_id, and a fetched row holds either what was fetched
\* or a result of its own image.
C33_RowHoldsResultOfOwnImage ==
    /\ \A k \in 1..PersistedCount :
          \E id \in DOMAIN document_images :
              /\ all_results[k].image_id = IdStr(id)
              /\ all_results[k] \in OwnResults(id)
              /\ OcrFields(document_images[id]) = ResultFields(all_results[k])
    /\ \A p \in DOMAIN pending_images :
          LET id == pending_images[p]
          IN  \/ OcrFields(document_images[id]) = <<"pending", "", 0>>
              \/ \E k \in 1..PersistedCount :
                    /\ all_results[k].image_id = IdStr(id)
                    /\ OcrFields(document_images[id]) = ResultFields(all_results[k])

\* a sub-batch of two whose second image completed first: both results are
\* written, the page-1 row holds the clear text and the page-2 row the
\* faint one
C33_Witness ==
    /\ ocrDocPc = "persisting"
    /\ Len(batch_results) = 2
    /\ persistPos = 3
    /\ batch_results[1].image_id = IdStr(pending_images[ocrBatchStart + 2])
    /\ document_images[pending_images[ocrBatchStart + 1]].ocr_text = "ab cd"
    /\ document_images[pending_images[ocrBatchStart + 2]].ocr_text = "ab"

(***************************************************************************)
(* Properties of the lazily loaded reader                                  *)
(***************************************************************************)

\* C34: the OCR engine handle is initialised at most once per service
\* instance, also when the pool threads of process_batch read it for the
\* first time at the same moment.
C34_ReaderInitialisedAtMostOnce == readerLoads <= 1

\* what does hold: when the load at startup succeeded, every later reader
\* of the property gets that one object
C34_LoadedAtStartupIsLoadedOnce ==
    readerHealth = "available" =>
        /\ readerLoads = 1
        /\ \A t \in DOMAIN readerThreads :
              readerThreads[t].pc = "readtext" => readerThreads[t].handle = 1

(***************************************************************************)
(* Properties of get_db                                                    *)
(***************************************************************************)

\* the last n calls on the current session
LastCalls(n) == SubSeq(dbCalls, Len(dbCalls) - n + 1, Len(dbCalls))

\* C35: every session opened through get_db is closed when the with block
\* is left: after a commit when the block ended normally, after a rollback
\* (the exception is re-raised) when the block or the commit raised; an
\* operation never holds two sessions and none is open once it returned.
C35_SessionClosedOnBothPaths ==
    /\ Cardinality(dbOpen) <= 1
    /\ dbPc \in {"ready", "returned"} =>
          /\ dbOpen = {}
          /\ dbLeft = "normal" => LastCalls(2) = <<"commit", "close">>
          /\ dbLeft = "raised" =>
                /\ LastCalls(2) \in {<<"rollback", "close">>,
                                     <<"rollback_raised", "close">>}
                /\ \A k \in 1..Len(dbCalls) - 2 :
                      dbCalls[k] \in {"execute", "commit"}
    /\ dbPc \in {"in_block", "except", "finally"} => dbOpen = {dbOpened}

\* the operation returned after two with blocks: the commit of the first
\* raised, the second ended normally after a statement, both were closed
C35_Witness ==
    /\ dbPc = "returned"
    /\ dbOpened = 2
    /\ dbLeft = "normal"
    /\ dbCalls = <<"execute", "commit", "close">>

\* a with block whose statement raised was left after rollback and close
C35_WitnessRaised ==
    /\ dbPc = "ready"
    /\ dbLeft = "raised"
    /\ dbCalls = <<"execute", "execute", "rollback", "close">>

(***************************************************************************)
(* Termination of the loop of chunk_text                                   *)
(***************************************************************************)

\* the window start strictly increases from one iteration to the next
WindowStartsIncrease ==
    \A k \in 1..(Len(windows) - 1) : windows[k].start < windows[k + 1].start

\* the loop was left by its own condition: the start computed by the last
\* iteration is not below len(words)
LoopLeftByCondition ==
    windows # <<>> =>
        NextStart(windows[Len(windows)].end, overlap) >= WordCount(text)

\* C36 (as claimed): for 0 <= overlap < chunk_size chunk_text terminates,
\* the number of chunks is at most the number of words, and the window
\* start strictly increases on every iteration.
C36_ChunksBoundedByWordCount ==
    chunkPc = "done" =>
        /\ LoopLeftByCondition
        /\ Len(chunks) <= WordCount(text)
        /\ WindowStartsIncrease

\* C36 (amended): for 0 <= overlap < chunk_size chunk_text terminates; the
\* loop makes at most one iteration per word and its window start strictly
\* increases; the number of chunks is at most the number of words, except
\* that a text without words gives one chunk (the text itself).
C36_LoopTerminatesWithinWordCount ==
    chunkPc = "done" =>
        /\ LoopLeftByCondition
        /\ Len(windows) <= WordCount(text)
        /\ WindowStartsIncrease
        /\ IF WordCount(text) = 0
           THEN chunks = <<text>>
           ELSE Len(chunks) <= WordCount(text)

\* the bound is reached: with overlap chunk_size - 1 >= 1 the loop made one
\* iteration per word
C36_Witness ==
    /\ chunkPc = "done"
    /\ overlap = chunk_size - 1
    /\ overlap >= 1
    /\ Len(windows) = WordCount(text)
    /\ Len(chunks) = 4

(***************************************************************************)
(* Properties of two process_document_images calls on one document         *)
(***************************************************************************)

\* the images call c has handed to process_batch
RunProcessed(c) ==
    {IdStr(runFetched[c][p]) : p \in 1..runStart[c]}
        \cup {runResults[c][k].image_id : k \in 1..Len(runResults[c])}

\* the rows a step fetches for call c were pending in the table it read
FetchedWerePending ==
    \A c \in OcrCalls :
        runFetched'[c] # runFetched[c] =>
            \A p \in DOMAIN runFetched'[c] :
                /\ sharedImages[runFetched'[c][p]].ocr_status = "pending"
                /\ sharedImages[runFetched'[c][p]].document_id = DocumentId

\* a call hands to process_batch only images it fetched, and a row changes
\* only by the result of a call that processed its image
OnlyFetchedAreProcessed ==
    /\ \A c \in OcrCalls :
          RunProcessed(c) \subseteq
              {IdStr(runFetched[c][p]) : p \in DOMAIN runFetched[c]}
    /\ \A id \in DOMAIN sharedImages :
          sharedImages'[id] # sharedImages[id] =>
              \E c \in OcrCalls : IdStr(id) \in RunProcessed(c)

\* no status goes back to 'pending'
NeverBackToPending ==
    \A id \in DOMAIN sharedImages :
        sharedImages[id].ocr_status # "pending" =>
            sharedImages'[id].ocr_status # "pending"

\* a row that is 'completed' keeps its status and text
CompletedRowsKept ==
    \A id \in DOMAIN sharedImages :
        sharedImages[id].ocr_status = "completed" =>
            /\ sharedImages'[id].ocr_status = "completed"
            /\ sharedImages'[id].ocr_text = sharedImages[id].ocr_text

\* C37 (as claimed): when two process_document_images calls for the same
\* document run concurrently, each pending image is processed by at most
\* one of them and a 'completed' row is never overwritten with 'failed' or
\* another text; a call processes only images pending when it fetched and
\* no status returns to 'pending'.
C37_ConcurrentRunsShareNoImage ==
    /\ [](RunProcessed(1) \cap RunProcessed(2) = {})
    /\ [][CompletedRowsKept]_vars
    /\ [][FetchedWerePending /\ OnlyFetchedAreProcessed /\ NeverBackToPending]_vars

\* C37 (amended): a call of process_document_images processes only the
\* images of the document that were 'pending' in the table when it fetched
\* (so a call that fetches after another call wrote an image's result does
\* not process that image), a row changes only through a call that
\* processed its image, and no status returns to 'pending'; rows completed
\* before a call fetched are never touched by it. Two overlapping calls are
\* not kept apart: both may process an image that was pending at both
\* fetches, and the later write wins.
C37_OnlyPendingAtFetchProcessed ==
    /\ [][FetchedWerePending /\ OnlyFetchedAreProcessed /\ NeverBackToPending]_vars
    /\ [](\A id \in DOMAIN sharedImages :
             sharedImages[id].ocr_text = "old" =>
                 \A c \in OcrCalls : IdStr(id) \notin RunProcessed(c))

\* both calls have returned after processing the same image; the first
\* call's result for it was 'completed' and was written, the row now says
\* 'failed'; the table also holds a row completed by an earlier run
C37_Witness ==
    /\ \A c \in OcrCalls : runPc[c] = "returned"
    /\ \E id \in DOMAIN sharedImages : sharedImages[id].ocr_text = "old"
    /\ \E id \in DOMAIN sharedImages :
          /\ IdStr(id) \in RunProcessed(1) \cap RunProcessed(2)
          /\ sharedImages[id].ocr_status = "failed"
          /\ \E k \in 1..Len(runResults[1]) :
                /\ runResults[1][k].image_id = IdStr(id)
                /\ runResults[1][k].status = "completed"
                /\ k < runPersistPos[1]

(***************************************************************************)
(* Properties of the document status after process_document                *)
(***************************************************************************)

\* C38: a Document is not left in status 'processing' once process_document
\* has returned: after a successful return the status is 'completed', after
\* a failure it is 'failed'.
C38_NotLeftProcessing ==
    /\ docPc = "returned" => docRow.status = "completed"
    /\ docPc = "raised" => docRow.status = "failed"

\* what does hold: a successful return leaves 'processing' with the counts
\* written, and a failure whose failed-status update went through leaves
\* 'failed'
C38_SuccessLeavesProcessing ==
    /\ docPc = "returned" =>
          /\ docRow.status = "processing"
          /\ docRow.page_count = Len(docPages)
    /\ (docPc = "raised" /\ docRaised = docError) => docRow.status = "failed"

(***************************************************************************)
(* Properties of failures in the embedded-image loop                       *)
(***************************************************************************)

\* the places (page, position in the page's image list) where content c
\* occurs in the document
Occurrences(c) ==
    UNION {{<<p, k>> : k \in {j \in 1..Len(pdf[p].imgs) : pdf[p].imgs[j] = c}} :
              p \in 1..NPages}

\* the contents of at least 100 x 100 pixels
LargeContents == {c \in Contents : ~IsTooSmall(c)}

HasDescriptor(c) ==
    \E k \in 1..Len(all_images) :
        all_images[k].type = "embedded" /\ all_images[k].hash = ContentHash(c)

\* C39: a failure on one occurrence of an embedded image omits only that
\* occurrence. At most one step fails in a behaviour, so of a content that
\* occurs twice one occurrence went through its iteration without error:
\* the returned list then has a descriptor of that content.
C39_FailureOmitsOnlyThatOccurrence ==
    imgPc = "returned" =>
        \A c \in LargeContents :
            Cardinality(Occurrences(c)) >= 2 => HasDescriptor(c)

\* what does hold: a run in which no step has failed returns a descriptor
\* of every large content of the document
C39_NoFailureNoOmission ==
    (imgPc = "returned" /\ ~imgFaulted) =>
        \A c \in LargeContents : Occurrences(c) # {} => HasDescriptor(c)

(***************************************************************************)
(* Properties of the processed count of process_document_images            *)
(***************************************************************************)

\* C40: the images_processed that process_document_images reports equals
\* the number of image rows whose OCR fields the call updated; so a return
\* of success False with images_processed 0 means that no row was changed.
C40_ProcessedCountIsRowsUpdated ==
    ocrDocPc = "returned" =>
        /\ ocrDocResult.images_processed = PersistedCount
        /\ (~ocrDocResult.success /\ ocrDocResult.images_processed = 0) =>
              \A p \in DOMAIN pending_images :
                  OcrFields(document_images[pending_images[p]]) = <<"pending", "", 0>>

\* what does hold: a successful return reports the rows updated, all the
\* fetched ones; a failure always reports 0, whatever was written before it
C40_SuccessCountsRowsFailureReportsZero ==
    ocrDocPc = "returned" =>
        IF ocrDocResult.success
        THEN /\ ocrDocResult.images_processed = PersistedCount
             /\ PersistedCount = Len(pending_images)
        ELSE /\ ocrDocResult.images_processed = 0
             /\ ocrDocFault = "fetch_error" => PersistedCount = 0

====
